---- MODULE Spec2Model ----
(***************************************************************************)
(* A model of coldbrew, a tracing runtime for JVM bytecode.                *)
(*                                                                         *)
(* The trace recorder (src/src/trace.rs) is modelled as a state machine:   *)
(* the variable `recorder` holds the fields of `Recorder`, and there is    *)
(* one action per public method (init, record, is_done_recording,          *)
(* recording).  Each method is an operator from the recorder value (and    *)
(* the arguments) to the recorder value after the call, translated arm by  *)
(* arm from the source; the actions apply these operators.                  *)
(***************************************************************************)
EXTENDS Integers, Sequences, FiniteSets, TLC

(***************************************************************************)
(* Bounds of the model.                                                    *)
(***************************************************************************)
\* A class file holds at most MaxEntries constant-pool entries.
MaxEntries == 2

\* A loop iteration is at most MaxIteration instructions long.
MaxIteration == 2

\* The trace buffer (a Vec, unbounded in the code) holds at most MaxTrace
\* records in the model.
MaxTrace == 2

\* The most attributes of an attribute block.
MaxAttrs == 2

\* The most methods of a class file.
MaxMethods == 2

\* The most argument types of a method descriptor.
MaxArgs == 2

\* The most instructions of the code of a method.
MaxCode == 2

\* The most verification entries among the locals, and on the stack, of a
\* stack map frame.
MaxFrameEntries == 2

(***************************************************************************)
(* bytecode.rs: the opcode table.  Opcodes are named by the variants of    *)
(* `enum OPCode`; OPCodeTable[b + 1] is `OPCode::from(b)` for b in 0..202.  *)
(***************************************************************************)
OPCodeTable == <<
    "Nop", "AConstNull", "IconstM1", "Iconst0", "Iconst1", "Iconst2",
    "Iconst3", "Iconst4", "Iconst5", "Lconst0", "Lconst1", "Fconst0",
    "Fconst1", "Fconst2", "Dconst0", "Dconst1", "BiPush", "SiPush", "Ldc",
    "LdcW", "Ldc2W", "ILoad", "LLoad", "FLoad", "DLoad", "ALoad", "ILoad0",
    "ILoad1", "ILoad2", "ILoad3", "LLoad0", "LLoad1", "LLoad2", "LLoad3",
    "FLoad0", "FLoad1", "FLoad2", "FLoad3", "DLoad0", "DLoad1", "DLoad2",
    "DLoad3", "ALoad0", "ALoad1", "ALoad2", "ALoad3", "IALoad", "LALoad",
    "FALoad", "DALoad", "AALoad", "BALoad", "CALoad", "SALoad", "IStore",
    "LStore", "FStore", "DStore", "AStore", "IStore0", "IStore1",
    "IStore2", "IStore3", "LStore0", "LStore1", "LStore2", "LStore3",
    "FStore0", "FStore1", "FStore2", "FStore3", "DStore0", "DStore1",
    "DStore2", "DStore3", "AStore0", "AStore1", "AStore2", "AStore3",
    "IAStore", "LAStore", "FAStore", "DAStore", "AAStore", "BAStore",
    "CAStore", "SAStore", "Pop", "Pop2", "Dup", "DupX1", "DupX2", "Dup2",
    "Dup2X1", "Dup2X2", "Swap", "IAdd", "LAdd", "FAdd", "DAdd", "ISub",
    "LSub", "FSub", "DSub", "IMul", "LMul", "FMul", "DMul", "IDiv", "LDiv",
    "FDiv", "DDiv", "IRem", "LRem", "FRem", "DRem", "INeg", "LNeg", "FNeg",
    "DNeg", "IShl", "LShl", "IShr", "LShr", "IUShr", "LUShr", "Iand",
    "Land", "IOr", "LOr", "IXor", "LXor", "IInc", "I2L", "I2F", "I2D",
    "L2I", "L2F", "L2D", "F2I", "F2L", "F2D", "D2I", "D2L", "D2F", "I2B",
    "I2C", "I2S", "LCmp", "FCmpL", "FCmpG", "DCmpL", "DCmpG", "IfEq",
    "IfNe", "IfLt", "IfGe", "IfGt", "IfLe", "IfICmpEq", "IfICmpNe",
    "IfICmpLt", "IfICmpGe", "IfICmpGt", "IfICmpLe", "IfACmpEq", "IfACmpNe",
    "Goto", "Jsr", "Ret", "TableSwitch", "LookupSwitch", "IReturn",
    "LReturn", "FReturn", "DReturn", "AReturn", "Return", "GetStatic",
    "PutStatic", "GetField", "PutField", "InvokeVirtual", "InvokeSpecial",
    "InvokeStatic", "InvokeInterface", "InvokeDynamic", "New", "NewArray",
    "ANewArray", "ArrayLength", "AThrow", "CheckCast", "InstanceOf",
    "MonitorEnter", "MonitorExit", "Wide", "MultiANewArray", "IfNull",
    "IfNonNull", "GotoW", "JsrW", "Breakpoint"
  >>

\* (OPCode::from taking the byte 1 for the byte 0, to try the properties
\* on.)
OPCodeFromU8_shifted(byte) ==
  IF byte = 0 THEN OPCodeTable[2]
  ELSE IF byte + 1 <= Len(OPCodeTable) THEN OPCodeTable[byte + 1]
  ELSE "Unspecified"

\* impl From<u8> for OPCode.
OPCodeFromU8(byte) ==
  IF byte + 1 <= Len(OPCodeTable) THEN OPCodeTable[byte + 1] ELSE "Unspecified"

\* Every opcode a decoded code array can hold.
OPCodes == {OPCodeFromU8(b) : b \in 0..255}

(***************************************************************************)
(* runtime.rs: Value, Instruction, ProgramCounter.                         *)
(* Option<T> is modelled as a sequence of length 0 (None) or 1 (Some).      *)
(***************************************************************************)
None == <<>>
Some(x) == <<x>>

\* enum Value { Int(i32), Long(i64), Float(f32), Double(f64) }.  The floats
\* of the recorder are the literals 0., 1. and 2., held as their integer value.
ValueInt(v) == [kind |-> "Int", val |-> v]
ValueLong(v) == [kind |-> "Long", val |-> v]
ValueFloat(v) == [kind |-> "Float", val |-> v]
ValueDouble(v) == [kind |-> "Double", val |-> v]

\* struct Instruction { mnemonic, params: Option<Vec<Value>> }.
Instruction(mnemonic, params) == [mnemonic |-> mnemonic, params |-> params]

get_mnemonic(inst) == inst.mnemonic

\* Instruction::nth(n): the n-th parameter (0-based), None when there is none.
nth(inst, n) ==
  IF inst.params # None /\ n + 1 <= Len(inst.params[1])
  THEN Some(inst.params[1][n + 1])
  ELSE None

\* struct ProgramCounter { instruction_index, method_index }.
ProgramCounter(method_index, instruction_index) ==
  [method_index |-> method_index, instruction_index |-> instruction_index]

\* ProgramCounter::default().
DefaultProgramCounter == ProgramCounter(0, 0)

get_method_index(pc) == pc.method_index

\* A move by one instruction whatever the offset, as State's
\* inc_instruction_index does.
inc_instruction_index_by_one(pc, offset) ==
  [pc EXCEPT !.instruction_index = @ + 1]

\* ProgramCounter::inc_instruction_index(offset): move by a signed delta.
inc_instruction_index(pc, offset) ==
  [pc EXCEPT !.instruction_index = @ + offset]

(***************************************************************************)
(* trace.rs: Record, Trace, Recorder.                                      *)
(***************************************************************************)
\* struct Record { pc, inst }.
Record(pc, inst) == [pc |-> pc, inst |-> inst]

\* Recorder::new().
Recorder_new ==
  [trace_start |-> DefaultProgramCounter,
   loop_header |-> DefaultProgramCounter,
   is_recording |-> FALSE,
   last_instruction_was_branch |-> FALSE,
   trace |-> <<>>,
   inner_branch_targets |-> {},
   outer_branch_targets |-> {}]

\* The opcodes of the return arm of is_done_recording.
ReturnOPCodes == {"Return", "IReturn", "LReturn", "FReturn", "DReturn"}

\* is_done_recording without the exit on a return into the same method.
is_done_recording_no_exit(self, pc) ==
  [self |-> self, ret |-> (self.trace # <<>> /\ pc = self.loop_header)]

\* is_done_recording with the comparison of the method indices negated.
is_done_recording_negated(self, pc) ==
  IF self.trace = <<>>
  THEN [self |-> self, ret |-> FALSE]
  ELSE LET entry == self.trace[Len(self.trace)] IN
       IF /\ get_mnemonic(entry.inst)
               \in {"Return", "IReturn", "LReturn", "FReturn", "DReturn"}
          /\ get_method_index(pc) # get_method_index(entry.pc)
       THEN [self |-> [self EXCEPT !.is_recording = FALSE], ret |-> FALSE]
       ELSE [self |-> self, ret |-> (pc = self.loop_header)]

\* is_done_recording emptying the buffer when it stops the recording.
is_done_recording_clearing(self, pc) ==
  IF self.trace = <<>>
  THEN [self |-> self, ret |-> FALSE]
  ELSE LET entry == self.trace[Len(self.trace)] IN
       IF /\ get_mnemonic(entry.inst) \in ReturnOPCodes
          /\ get_method_index(pc) = get_method_index(entry.pc)
       THEN [self |-> [self EXCEPT !.is_recording = FALSE, !.trace = <<>>],
             ret |-> FALSE]
       ELSE [self |-> self, ret |-> (pc = self.loop_header)]

\* Recorder::is_done_recording(&mut self, pc) -> bool: the recorder after the
\* call and the value returned.
is_done_recording(self, pc) ==
  IF self.trace = <<>>
  THEN [self |-> self, ret |-> FALSE]
  ELSE LET entry == self.trace[Len(self.trace)] IN
       IF get_mnemonic(entry.inst) \in ReturnOPCodes
       THEN IF get_method_index(pc) = get_method_index(entry.pc)
            THEN [self |-> [self EXCEPT !.is_recording = FALSE], ret |-> FALSE]
            ELSE [self |-> self, ret |-> (pc = self.loop_header)]
       ELSE [self |-> self, ret |-> (pc = self.loop_header)]

\* Recorder::get_params(opcode) -> Option<Value>.
get_params(opcode) ==
  CASE opcode \in {"ILoad0", "FLoad0", "LLoad0", "DLoad0", "IStore0",
                   "FStore0", "LStore0", "DStore0", "Iconst0"}
         -> Some(ValueInt(0))
    [] opcode \in {"ILoad1", "FLoad1", "LLoad1", "DLoad1", "IStore1",
                   "FStore1", "LStore1", "DStore1", "Iconst1"}
         -> Some(ValueInt(1))
    [] opcode \in {"ILoad2", "FLoad2", "LLoad2", "DLoad2", "IStore2",
                   "FStore2", "LStore2", "DStore2", "Iconst2"}
         -> Some(ValueInt(2))
    [] opcode \in {"ILoad3", "FLoad3", "LLoad3", "DLoad3", "IStore3",
                   "FStore3", "LStore3", "DStore3", "Iconst3"}
         -> Some(ValueInt(3))
    [] opcode = "Iconst4" -> Some(ValueInt(4))
    [] opcode = "Iconst5" -> Some(ValueInt(5))
    [] opcode = "IconstM1" -> Some(ValueInt(-1))
    [] opcode = "Fconst0" -> Some(ValueFloat(0))
    [] opcode = "Fconst1" -> Some(ValueFloat(1))
    [] opcode = "Fconst2" -> Some(ValueFloat(2))
    [] opcode = "Lconst0" -> Some(ValueLong(0))
    [] opcode = "Lconst1" -> Some(ValueLong(1))
    [] opcode = "Dconst0" -> Some(ValueDouble(0))
    [] opcode = "Dconst1" -> Some(ValueDouble(1))
    [] OTHER -> None

\* A push at the front of the buffer.
trace_push_front(self, pc, inst) ==
  [self EXCEPT !.trace = <<Record(pc, inst)>> \o @]

\* A push that turns the recorder on.
trace_push_resuming(self, pc, inst) ==
  [self EXCEPT !.trace = Append(@, Record(pc, inst)), !.is_recording = TRUE]

\* The tail of record: self.trace.push(Record { pc, inst }).
trace_push(self, pc, inst) ==
  [self EXCEPT !.trace = Append(@, Record(pc, inst))]

\* The goto arm stopping the recording on a forward branch.
record_goto_stops(self, pc, inst) ==
  LET offset == nth(inst, 0)[1].val
      branch_target == inc_instruction_index(pc, offset) IN
  IF offset > 0
  THEN [self EXCEPT !.is_recording = FALSE]
  ELSE IF self.trace_start = branch_target
       THEN trace_push(
              [self EXCEPT !.inner_branch_targets = @ \cup {branch_target}],
              pc, inst)
       ELSE trace_push(
              [self EXCEPT !.outer_branch_targets = @ \cup {branch_target}],
              pc, inst)

\* The goto arm with the two target sets exchanged.
record_goto_exchanged(self, pc, inst) ==
  LET offset == nth(inst, 0)[1].val
      branch_target == inc_instruction_index(pc, offset) IN
  IF offset > 0
  THEN self
  ELSE IF self.trace_start = branch_target
       THEN trace_push(
              [self EXCEPT !.outer_branch_targets = @ \cup {branch_target}],
              pc, inst)
       ELSE trace_push(
              [self EXCEPT !.inner_branch_targets = @ \cup {branch_target}],
              pc, inst)

\* The goto arm without the early return on a forward branch.
record_goto_forward(self, pc, inst) ==
  LET branch_target == inc_instruction_index(pc, nth(inst, 0)[1].val) IN
  IF self.trace_start = branch_target
  THEN [self EXCEPT !.inner_branch_targets = @ \cup {branch_target},
                    !.trace = Append(@, Record(pc, inst))]
  ELSE [self EXCEPT !.outer_branch_targets = @ \cup {branch_target},
                    !.trace = Append(@, Record(pc, inst))]

\* record, the OPCode::Goto arm.  The offset is the first parameter (the
\* arm panics unless it is a Value::Int: every goto of the model carries one).
record_goto(self, pc, inst) ==
  LET offset == nth(inst, 0)[1].val IN
  IF offset > 0
  THEN self
  ELSE LET branch_target == inc_instruction_index(pc, offset) IN
       IF self.trace_start = branch_target
       THEN trace_push(
              [self EXCEPT !.inner_branch_targets = @ \cup {branch_target}],
              pc, inst)
       ELSE trace_push(
              [self EXCEPT !.outer_branch_targets = @ \cup {branch_target}],
              pc, inst)

\* The opcodes of the conditional-branch arm of record.
BranchArmOPCodes ==
  {"IfNe", "IfEq", "IfGt", "IfICmpGe", "IfICmpGt", "IfICmpLt", "IfICmpLe",
   "IfICmpNe", "IfICmpEq"}

\* The conditional-branch arm without the branch flag.
record_branch_unflagged(self, pc, inst) ==
  trace_push(self, pc, inst)

\* record, the conditional-branch arm.
record_branch(self, pc, inst) ==
  trace_push([self EXCEPT !.last_instruction_was_branch = TRUE], pc, inst)

\* The invokestatic arm discarding the records on a recursive call.
record_invokestatic_discards(self, pc, inst) ==
  IF get_method_index(self.trace_start) = nth(inst, 0)[1].val
  THEN [self EXCEPT !.is_recording = FALSE, !.trace = <<>>]
  ELSE [self EXCEPT !.trace = Append(@, Record(pc, inst))]

\* record, the OPCode::InvokeStatic arm.  `method_index as usize` keeps the
\* value of a name index, which is never negative.
record_invokestatic(self, pc, inst) ==
  LET method_index == nth(inst, 0)[1].val IN
  IF get_method_index(self.trace_start) = method_index
  THEN [self EXCEPT !.is_recording = FALSE]
  ELSE trace_push(self, pc, inst)

\* The opcodes of the short-form arm of record.
ShortFormArmOPCodes ==
  {"Iconst0", "Iconst1", "Iconst2", "Iconst3", "Iconst4", "Iconst5",
   "IconstM1", "Lconst0", "Lconst1", "Fconst0", "Fconst1", "Fconst2",
   "Dconst0", "Dconst1",
   "ILoad0", "ILoad1", "ILoad2", "ILoad3", "DLoad0", "DLoad1", "DLoad2",
   "DLoad3", "FLoad0", "FLoad1", "FLoad2", "FLoad3", "LLoad0", "LLoad1",
   "LLoad2", "LLoad3",
   "IStore0", "IStore1", "IStore2", "IStore3", "FStore0", "FStore1",
   "FStore2", "FStore3", "DStore0", "DStore1", "DStore2", "DStore3"}

\* record, the short-form arm: the instruction is rebuilt from its own
\* mnemonic and the parameter get_params gives for it.
record_short_form(self, pc, inst) ==
  LET value == get_params(get_mnemonic(inst)) IN
  IF value # None
  THEN trace_push(self, pc,
                  Instruction(get_mnemonic(inst), Some(<<value[1]>>)))
  ELSE trace_push(self, pc, inst)

\* Recorder::record(&mut self, pc, inst).
record(self, pc, inst) ==
  LET mnemonic == get_mnemonic(inst) IN
  CASE mnemonic = "Goto" -> record_goto(self, pc, inst)
    [] mnemonic \in BranchArmOPCodes -> record_branch(self, pc, inst)
    [] mnemonic = "InvokeStatic" -> record_invokestatic(self, pc, inst)
    [] mnemonic \in ShortFormArmOPCodes -> record_short_form(self, pc, inst)
    [] OTHER -> trace_push(self, pc, inst)

\* init keeping the buffer and the target sets on a reset.
init_keeps_trace(self, loop_header, start) ==
  IF self.is_recording /\ self.trace_start = start
  THEN self
  ELSE [self EXCEPT !.trace_start = start,
                    !.loop_header = loop_header,
                    !.is_recording = TRUE,
                    !.last_instruction_was_branch = FALSE]

\* init without the early return: it resets on every call.
init_always_resets(self, loop_header, start) ==
  [trace_start |-> start,
   loop_header |-> loop_header,
   is_recording |-> TRUE,
   last_instruction_was_branch |-> FALSE,
   trace |-> <<>>,
   inner_branch_targets |-> {},
   outer_branch_targets |-> {}]

\* init that leaves last_instruction_was_branch as it was.
init_keeps_branch_flag(self, loop_header, start) ==
  IF self.is_recording /\ self.trace_start = start
  THEN self
  ELSE [trace_start |-> start,
        loop_header |-> loop_header,
        is_recording |-> TRUE,
        last_instruction_was_branch |-> self.last_instruction_was_branch,
        trace |-> <<>>,
        inner_branch_targets |-> {},
        outer_branch_targets |-> {}]

\* init leaving both target sets as they are on a reset.
init_keeps_targets(self, loop_header, start) ==
  IF self.is_recording /\ self.trace_start = start
  THEN self
  ELSE [self EXCEPT !.trace_start = start,
                    !.loop_header = loop_header,
                    !.is_recording = TRUE,
                    !.last_instruction_was_branch = FALSE,
                    !.trace = <<>>]

\* Recorder::init(&mut self, loop_header, start).
init(self, loop_header, start) ==
  IF self.is_recording /\ self.trace_start = start
  THEN self
  ELSE [trace_start |-> start,
        loop_header |-> loop_header,
        is_recording |-> TRUE,
        last_instruction_was_branch |-> FALSE,
        trace |-> <<>>,
        inner_branch_targets |-> {},
        outer_branch_targets |-> {}]

\* struct Trace { start, trace, inner_branch_targets, outer_branch_targets }.
Trace(start, trace, inner, outer) ==
  [start |-> start, trace |-> trace,
   inner_branch_targets |-> inner, outer_branch_targets |-> outer]

\* recording that moves the buffer into the Trace instead of cloning it.
recording_takes(self) ==
  [self |-> [self EXCEPT !.is_recording = FALSE, !.trace = <<>>],
   ret |-> Trace(self.trace_start, self.trace, self.inner_branch_targets,
                 self.outer_branch_targets)]

\* Recorder::recording(&mut self) -> Trace: the recorder after the call and
\* the trace returned, which owns clones of the buffer and of both sets.
recording(self) ==
  [self |-> [self EXCEPT !.is_recording = FALSE],
   ret |-> Trace(self.trace_start, self.trace, self.inner_branch_targets,
                 self.outer_branch_targets)]

(***************************************************************************)
(* jvm.rs: the class-file parser.  A byte is a number in 0..255, the input *)
(* a sequence of bytes; a call ends with Ok(class file), with              *)
(* Err(UnexpectedEof) where a read is followed by `?`, or with a panic     *)
(* where it is followed by unwrap().                                       *)
(***************************************************************************)
\* A u32 is kept as its four big-endian bytes, a u8 and a u16 as a number.
\* const JVM_CLASS_FILE_MAGIC: u32 = 0xCAFEBABE.
JVM_CLASS_FILE_MAGIC == <<202, 254, 186, 190>>

\* Cursor::new(bytes): the bytes and the position of the next read.
Cursor_new(bytes) == [bytes |-> bytes, pos |-> 0]

\* The big-endian number of a sequence of bytes.
RECURSIVE BigEndian(_)
BigEndian(buf) ==
  IF buf = <<>>
  THEN 0
  ELSE BigEndian(SubSeq(buf, 1, Len(buf) - 1)) * 256 + buf[Len(buf)]

\* Read::read_exact on the cursor: the next n bytes and the cursor behind
\* them, or an UnexpectedEof error when fewer than n bytes are left.
read_exact(buffer, n) ==
  IF buffer.pos + n <= Len(buffer.bytes)
  THEN [ok |-> TRUE,
        buf |-> SubSeq(buffer.bytes, buffer.pos + 1, buffer.pos + n),
        buffer |-> [buffer EXCEPT !.pos = @ + n]]
  ELSE [ok |-> FALSE,
        buf |-> <<>>,
        buffer |-> [buffer EXCEPT !.pos = Len(buffer.bytes)]]

\* ReadBytesExt::read_u8, read_u16::<BigEndian>, read_u32::<BigEndian>.
read_uint(buffer, n) ==
  LET r == read_exact(buffer, n) IN
  [ok |-> r.ok,
   value |-> IF n = 4 THEN r.buf ELSE BigEndian(r.buf),
   buffer |-> r.buffer]

read_u8(buffer) == read_uint(buffer, 1)

read_u16(buffer) == read_uint(buffer, 2)

read_u32(buffer) == read_uint(buffer, 4)

\* impl From<u8> for ConstantKind.
ConstantKindFromU8(v) ==
  CASE v = 1 -> "Utf8"
    [] v = 3 -> "Integer"
    [] v = 4 -> "Float"
    [] v = 5 -> "Long"
    [] v = 6 -> "Double"
    [] v = 7 -> "Class"
    [] v = 8 -> "String"
    [] v = 9 -> "FieldRef"
    [] v = 10 -> "MethodRef"
    [] v = 12 -> "InterfaceMethodRef"
    [] v = 15 -> "MethodHandle"
    [] v = 16 -> "MethodType"
    [] v = 17 -> "Dynamic"
    [] v = 18 -> "InvokeDynamic"
    [] OTHER -> "Unspecified"

\* CPInfo::Unspecified.
CPInfoUnspecified == [kind |-> "Unspecified"]

\* String::from_utf8 on the bytes of the model: ASCII bytes are UTF-8, and
\* a byte of 248 or more occurs in no UTF-8 text.
from_utf8_is_ok(buf) == \A i \in DOMAIN buf : buf[i] < 128

\* The reads of one match arm of the constant-pool loop, each followed by
\* unwrap(): `sizes` are the widths of the fields read in order.  Gives the
\* values read and the cursor behind them; ok is false when a read fails,
\* where unwrap() panics.
RECURSIVE read_fields(_, _)
read_fields(buffer, sizes) ==
  IF sizes = <<>>
  THEN [ok |-> TRUE, values |-> <<>>, buffer |-> buffer]
  ELSE LET r == read_uint(buffer, sizes[1]) IN
       IF ~r.ok
       THEN [ok |-> FALSE, values |-> <<>>, buffer |-> r.buffer]
       ELSE LET rest == read_fields(r.buffer, Tail(sizes)) IN
            [ok |-> rest.ok,
             values |-> <<r.value>> \o rest.values,
             buffer |-> rest.buffer]

\* The widths of the fields that the arm of a ConstantKind reads.
FieldSizes(kind) ==
  CASE kind \in {"Class", "String", "MethodType"} -> <<2>>
    [] kind \in {"FieldRef", "MethodRef", "InterfaceMethodRef",
                 "NameAndType", "InvokeDynamic"} -> <<2, 2>>
    [] kind \in {"Integer", "Float"} -> <<4>>
    [] kind \in {"Long", "Double"} -> <<4, 4>>
    [] kind = "MethodHandle" -> <<1, 2>>

\* The CPInfo value that the arm of a ConstantKind builds from its fields.
CPInfoOf(kind, v) ==
  CASE kind = "Class"
         -> [kind |-> "ConstantClass", name_index |-> v[1]]
    [] kind = "FieldRef"
         -> [kind |-> "ConstantFieldRef", class_index |-> v[1],
             name_and_type_index |-> v[2]]
    [] kind = "MethodRef"
         -> [kind |-> "ConstantMethodRef", class_index |-> v[1],
             name_and_type_index |-> v[2]]
    [] kind = "InterfaceMethodRef"
         -> [kind |-> "ConstantInterfaceMethodRef", class_index |-> v[1],
             name_and_type_index |-> v[2]]
    [] kind = "String"
         -> [kind |-> "ConstantString", string_index |-> v[1]]
    [] kind = "Integer"
         -> [kind |-> "ConstantInteger", bytes |-> v[1]]
    [] kind = "Float"
         -> [kind |-> "ConstantFloat", bytes |-> v[1]]
    [] kind = "Long"
         -> [kind |-> "ConstantLong", hi_bytes |-> v[1], lo_bytes |-> v[2]]
    [] kind = "Double"
         -> [kind |-> "ConstantDouble", hi_bytes |-> v[1],
             lo_bytes |-> v[2]]
    [] kind = "NameAndType"
         -> [kind |-> "ConstantNameAndType", name_index |-> v[1],
             descriptor_index |-> v[2]]
    [] kind = "MethodHandle"
         -> [kind |-> "ConstantMethodHandle", reference_kind |-> v[1],
             reference_index |-> v[2]]
    [] kind = "MethodType"
         -> [kind |-> "ConstantMethodType", descriptor_index |-> v[1]]
    [] kind = "InvokeDynamic"
         -> [kind |-> "ConstantInvokeDynamic",
             bootstrap_method_attr_index |-> v[1],
             name_and_type_index |-> v[2]]

\* The match on ConstantKind::from(tag) of the constant-pool loop: the
\* entry parsed and the cursor behind it; ok is false where the arm panics
\* (a failed read, bytes that are not UTF-8, a kind without an arm).
parse_constant(buffer, tag) ==
  LET kind == ConstantKindFromU8(tag) IN
  IF kind \in {"Dynamic", "Unspecified"}
  THEN [ok |-> FALSE, value |-> CPInfoUnspecified, buffer |-> buffer]
  ELSE IF kind = "Utf8"
  THEN LET length == read_u16(buffer)
           buf == read_exact(length.buffer, length.value)
       IN
       IF length.ok /\ buf.ok /\ from_utf8_is_ok(buf.buf)
       THEN [ok |-> TRUE,
             value |-> [kind |-> "ConstantUtf8", bytes |-> buf.buf],
             buffer |-> buf.buffer]
       ELSE [ok |-> FALSE, value |-> CPInfoUnspecified, buffer |-> buffer]
  ELSE LET r == read_fields(buffer, FieldSizes(kind)) IN
       IF r.ok
       THEN [ok |-> TRUE, value |-> CPInfoOf(kind, r.values),
             buffer |-> r.buffer]
       ELSE [ok |-> FALSE, value |-> CPInfoUnspecified, buffer |-> buffer]

\* vec![CPInfo::Unspecified; constant_pool_count as usize]: the pool is a
\* function on the indices 0..constant_pool_count-1.
constant_pool_new(constant_pool_count) ==
  [i \in 0..(constant_pool_count - 1) |-> CPInfoUnspecified]

\* The loop storing every entry one index lower.
RECURSIVE constant_pool_loop_from_zero(_, _, _, _)
constant_pool_loop_from_zero(buffer, constant_pool, next, constant_pool_count) ==
  IF next >= constant_pool_count
  THEN [outcome |-> "Ok", buffer |-> buffer,
        constant_pool |-> constant_pool, tags |-> 0]
  ELSE LET tag == read_u8(buffer) IN
       IF ~tag.ok
       THEN [outcome |-> "Err", buffer |-> tag.buffer,
             constant_pool |-> constant_pool, tags |-> 0]
       ELSE LET entry == parse_constant(tag.buffer, tag.value) IN
            IF ~entry.ok
            THEN [outcome |-> "Panic", buffer |-> entry.buffer,
                  constant_pool |-> constant_pool, tags |-> 1]
            ELSE LET rest ==
                       constant_pool_loop_from_zero(
                         entry.buffer,
                         [constant_pool EXCEPT ![next - 1] = entry.value],
                         next + 1, constant_pool_count)
                 IN [rest EXCEPT !.tags = @ + 1]

\* for mut ii in 1..constant_pool_count as usize { ... }: `next` is the
\* next value of the range.  Every iteration binds ii to that value, so the
\* `ii += 1` of the Long and Double arms, which follows the store, changes
\* a variable that is not read again and not the range.  `tags` counts the
\* tag bytes read.
RECURSIVE constant_pool_loop(_, _, _, _)
constant_pool_loop(buffer, constant_pool, next, constant_pool_count) ==
  IF next >= constant_pool_count
  THEN [outcome |-> "Ok", buffer |-> buffer,
        constant_pool |-> constant_pool, tags |-> 0]
  ELSE LET ii == next
           tag == read_u8(buffer)
       IN
       IF ~tag.ok
       THEN [outcome |-> "Err", buffer |-> tag.buffer,
             constant_pool |-> constant_pool, tags |-> 0]
       ELSE LET entry == parse_constant(tag.buffer, tag.value) IN
            IF ~entry.ok
            THEN [outcome |-> "Panic", buffer |-> entry.buffer,
                  constant_pool |-> constant_pool, tags |-> 1]
            ELSE LET rest ==
                       constant_pool_loop(
                         entry.buffer,
                         [constant_pool EXCEPT ![ii] = entry.value],
                         next + 1, constant_pool_count)
                 IN [rest EXCEPT !.tags = @ + 1]

\* for _ in 0..interfaces_count { buffer.read_u16()? ; push }.
RECURSIVE parse_interfaces(_, _)
parse_interfaces(buffer, interfaces_count) ==
  IF interfaces_count = 0
  THEN [ok |-> TRUE, interfaces |-> <<>>, buffer |-> buffer]
  ELSE LET interface == read_u16(buffer) IN
       IF ~interface.ok
       THEN [ok |-> FALSE, interfaces |-> <<>>, buffer |-> interface.buffer]
       ELSE LET rest == parse_interfaces(interface.buffer,
                                         interfaces_count - 1)
            IN [ok |-> rest.ok,
                interfaces |-> <<interface.value>> \o rest.interfaces,
                buffer |-> rest.buffer]

\* The loop of parse_fields: access_flag, name_index and descriptor_index
\* of every field, each read followed by unwrap().
RECURSIVE parse_field_infos(_, _)
parse_field_infos(reader, fields_count) ==
  IF fields_count = 0
  THEN [ok |-> TRUE, fields |-> <<>>, buffer |-> reader]
  ELSE LET r == read_fields(reader, <<2, 2, 2>>) IN
       IF ~r.ok
       THEN [ok |-> FALSE, fields |-> <<>>, buffer |-> r.buffer]
       ELSE LET rest == parse_field_infos(r.buffer, fields_count - 1) IN
            [ok |-> rest.ok,
             fields |-> <<[access_flag |-> r.values[1],
                           name_index |-> r.values[2],
                           descriptor_index |-> r.values[3]]>>
                          \o rest.fields,
             buffer |-> rest.buffer]

\* parse_fields(reader, constant_pool) -> (fields_count, fields); ok is
\* false where an unwrap() panics.
parse_fields(reader) ==
  LET fields_count == read_u16(reader) IN
  IF ~fields_count.ok
  THEN [ok |-> FALSE, fields_count |-> 0, fields |-> <<>>]
  ELSE LET r == parse_field_infos(fields_count.buffer, fields_count.value)
       IN [ok |-> r.ok, fields_count |-> fields_count.value,
           fields |-> r.fields]

\* The results of parse: Err(UnexpectedEof) and a panic.
ParseErr == [outcome |-> "Err", error |-> "UnexpectedEof"]

ParsePanic == [outcome |-> "Panic"]

\* The header of parse: magic, minor_version, major_version and
\* constant_pool_count, each read followed by `?`.
parse_header(buffer) ==
  LET magic == read_u32(buffer)
      minor_version == read_u16(magic.buffer)
      major_version == read_u16(minor_version.buffer)
      constant_pool_count == read_u16(major_version.buffer)
  IN
  [ok |-> magic.ok /\ minor_version.ok /\ major_version.ok
            /\ constant_pool_count.ok,
   magic |-> magic.value,
   minor_version |-> minor_version.value,
   major_version |-> major_version.value,
   constant_pool_count |-> constant_pool_count.value,
   buffer |-> constant_pool_count.buffer]

\* parse after the constant-pool loop: access_flags, this_class,
\* super_class, interfaces_count and the interfaces, each read followed by
\* `?`, then parse_fields and the JVMClassFile.
parse_class(header, pool) ==
  LET access_flags == read_u16(pool.buffer)
      this_class == read_u16(access_flags.buffer)
      super_class == read_u16(this_class.buffer)
      interfaces_count == read_u16(super_class.buffer)
  IN
  IF ~(access_flags.ok /\ this_class.ok /\ super_class.ok
         /\ interfaces_count.ok)
  THEN ParseErr
  ELSE LET interfaces == parse_interfaces(interfaces_count.buffer,
                                          interfaces_count.value)
       IN
       IF ~interfaces.ok
       THEN ParseErr
       ELSE LET fields == parse_fields(interfaces.buffer) IN
            IF ~fields.ok
            THEN ParsePanic
            ELSE [outcome |-> "Ok",
                  class_file |->
                    [magic |-> header.magic,
                     minor_version |-> header.minor_version,
                     major_version |-> header.major_version,
                     constant_pool_count |-> header.constant_pool_count,
                     constant_pool |-> pool.constant_pool,
                     access_flags |-> access_flags.value,
                     this_class |-> this_class.value,
                     super_class |-> super_class.value,
                     interfaces_count |-> interfaces_count.value,
                     interfaces |-> interfaces.interfaces,
                     fields_count |-> fields.fields_count,
                     fields |-> fields.fields,
                     methods_count |-> 0,
                     methods |-> <<>>,
                     attributes_count |-> 0,
                     attributes |-> <<>>]]

\* JVMParser::parse(&self, class_file_bytes) -> io::Result<JVMClassFile>.
parse(class_file_bytes) ==
  LET header == parse_header(Cursor_new(class_file_bytes)) IN
  IF ~header.ok
  THEN ParseErr
  ELSE LET pool == constant_pool_loop(
                     header.buffer,
                     constant_pool_new(header.constant_pool_count),
                     1, header.constant_pool_count)
       IN
       CASE pool.outcome = "Err" -> ParseErr
         [] pool.outcome = "Panic" -> ParsePanic
         [] OTHER -> parse_class(header, pool)

(***************************************************************************)
(* jvm.rs: parse_attribute_info.  A String is the sequence of its          *)
(* characters, each a string of length one.  Every read is followed by     *)
(* unwrap(): an operator gives ok = FALSE where the function panics, and   *)
(* otherwise the value it builds and the reader behind the bytes it read.  *)
(***************************************************************************)
\* The attribute names that parse_attribute_info compares with.
NameConstantValue ==
  <<"C", "o", "n", "s", "t", "a", "n", "t", "V", "a", "l", "u", "e">>

NameCode == <<"C", "o", "d", "e">>

NameStackMapTable ==
  <<"S", "t", "a", "c", "k", "M", "a", "p", "T", "a", "b", "l", "e">>

NameSourceFile == <<"S", "o", "u", "r", "c", "e", "F", "i", "l", "e">>

NameBootstrapMethods ==
  <<"B", "o", "o", "t", "s", "t", "r", "a", "p",
    "M", "e", "t", "h", "o", "d", "s">>

NameNestHost == <<"N", "e", "s", "t", "H", "o", "s", "t">>

NameNestMembers == <<"N", "e", "s", "t", "M", "e", "m", "b", "e", "r", "s">>

\* CPInfo::ConstantUtf8 { bytes }.
ConstantUtf8(bytes) == [kind |-> "ConstantUtf8", bytes |-> bytes]

\* A panic, with the reader where it happened.
Panicked(reader) == [ok |-> FALSE, value |-> <<>>, buffer |-> reader]

\* A value built, with the reader behind it.
Built(value, reader) == [ok |-> TRUE, value |-> value, buffer |-> reader]

\* HashMap::insert: a map is a function on its keys.
insert(map, k, v) ==
  [key \in DOMAIN map \cup {k} |-> IF key = k THEN v ELSE map[key]]

\* HashMap::new().
HashMap_new == [key \in {} |-> None]

\* impl From<u8> for VerificationType, for v in 0..8; another v panics.
VerificationTypeFromU8(v) ==
  CASE v = 0 -> "TopVerification"
    [] v = 1 -> "IntegerVerification"
    [] v = 2 -> "FloatVerification"
    [] v = 3 -> "DoubleVerification"
    [] v = 4 -> "LongVerification"
    [] v = 5 -> "NullVerification"
    [] v = 6 -> "UninitializedThisVerification"
    [] v = 7 -> "ObjectVerification"
    [] v = 8 -> "UninitializedVerification"

\* unwrap() on what a read or a nested parse gives: the panic where it
\* failed, and otherwise the rest of the function, `then`, on its result.
unwrap(result, then(_)) ==
  IF ~result.ok THEN Panicked(result.buffer) ELSE then(result)

\* A `let` of the source: `then` on the value bound.
bind(value, then(_)) == then(value)

\* parse_verification_info(reader, num_entries) -> Vec<VerificationInfo>.
RECURSIVE parse_verification_info(_, _)
parse_verification_info(reader, num_entries) ==
  IF num_entries = 0
  THEN Built(<<>>, reader)
  ELSE
    unwrap(read_u8(reader), LAMBDA t :
      IF t.value > 8
      THEN Panicked(t.buffer)
      ELSE
        LET tag == VerificationTypeFromU8(t.value) IN
        unwrap(IF tag \in {"ObjectVerification", "UninitializedVerification"}
               THEN read_u16(t.buffer)
               ELSE [ok |-> TRUE, value |-> 0, buffer |-> t.buffer],
               LAMBDA cpool_index_or_offset :
          unwrap(parse_verification_info(cpool_index_or_offset.buffer,
                                         num_entries - 1),
                 LAMBDA rest :
            Built(<<[tag |-> tag,
                     cpool_index_or_offset |-> cpool_index_or_offset.value]>>
                    \o rest.value,
                  rest.buffer))))

\* struct StackMapFrame.
StackMapFrame(t, offset_delta, locals, stack) ==
  [t |-> t, offset_delta |-> offset_delta, locals |-> locals,
   stack |-> stack]

\* One frame of a StackMapTable: the tag byte and the arm of `match tag`.
\* The fields of a struct expression are evaluated in the order written.
parse_stack_map_frame(reader) ==
  unwrap(read_u8(reader), LAMBDA tag :
    CASE tag.value <= 63
           -> Built(StackMapFrame("Same", 0, <<>>, <<>>), tag.buffer)
      [] tag.value \in (64..127) \cup {247}
           -> unwrap(parse_verification_info(tag.buffer, 1), LAMBDA stack :
                Built(StackMapFrame(IF tag.value = 247
                                    THEN "SameLocalsExtended"
                                    ELSE "SameLocals",
                                    0, <<>>, stack.value),
                      stack.buffer))
      [] tag.value \in {248, 249, 250, 251}
           -> unwrap(read_u16(tag.buffer), LAMBDA offset_delta :
                Built(StackMapFrame(IF tag.value = 251
                                    THEN "SameExtended"
                                    ELSE "Chop",
                                    offset_delta.value, <<>>, <<>>),
                      offset_delta.buffer))
      [] tag.value \in {252, 253, 254}
           -> unwrap(read_u16(tag.buffer), LAMBDA offset_delta :
                unwrap(parse_verification_info(offset_delta.buffer,
                                               tag.value - 251),
                       LAMBDA locals :
                  Built(StackMapFrame("Append", offset_delta.value,
                                      locals.value, <<>>),
                        locals.buffer)))
      [] tag.value = 255
           -> unwrap(read_fields(tag.buffer, <<2, 2, 2>>), LAMBDA r :
                LET offset_delta == r.values[1]
                    n_locals_entries == r.values[2]
                    n_stack_entries == r.values[3]
                IN
                unwrap(parse_verification_info(r.buffer, n_locals_entries),
                       LAMBDA locals :
                  unwrap(parse_verification_info(locals.buffer,
                                                 n_stack_entries),
                         LAMBDA stack :
                    Built(StackMapFrame("Full", offset_delta,
                                        locals.value, stack.value),
                          stack.buffer))))
      [] OTHER -> Panicked(tag.buffer))

\* for _ in 0..number_of_entries { ...; stack_map_entries.push(frame) }.
RECURSIVE parse_stack_map_entries(_, _)
parse_stack_map_entries(reader, number_of_entries) ==
  IF number_of_entries = 0
  THEN Built(<<>>, reader)
  ELSE
    unwrap(parse_stack_map_frame(reader), LAMBDA frame :
      unwrap(parse_stack_map_entries(frame.buffer, number_of_entries - 1),
             LAMBDA rest :
        Built(<<frame.value>> \o rest.value, rest.buffer)))

\* for _ in 0..exception_table_length { start_pc, end_pc, handler_pc,
\* catch_type; push }.
RECURSIVE parse_exception_table(_, _)
parse_exception_table(reader, exception_table_length) ==
  IF exception_table_length = 0
  THEN Built(<<>>, reader)
  ELSE
    unwrap(read_fields(reader, <<2, 2, 2, 2>>), LAMBDA r :
      unwrap(parse_exception_table(r.buffer, exception_table_length - 1),
             LAMBDA rest :
        Built(<<[start_pc |-> r.values[1],
                 end_pc |-> r.values[2],
                 handler_pc |-> r.values[3],
                 catch_type |-> r.values[4]]>> \o rest.value,
              rest.buffer)))

\* for _ in 0..count { reader.read_u16().unwrap(); push }: the arguments of
\* a bootstrap method and the classes of NestMembers.
RECURSIVE read_u16s(_, _)
read_u16s(reader, count) ==
  IF count = 0
  THEN Built(<<>>, reader)
  ELSE
    unwrap(read_u16(reader), LAMBDA r :
      unwrap(read_u16s(r.buffer, count - 1), LAMBDA rest :
        Built(<<r.value>> \o rest.value, rest.buffer)))

\* for _ in 0..num_bootstrap_methods { method_ref, argument_count, the
\* arguments; push }.
RECURSIVE parse_bootstrap_methods(_, _)
parse_bootstrap_methods(reader, num_bootstrap_methods) ==
  IF num_bootstrap_methods = 0
  THEN Built(<<>>, reader)
  ELSE
    unwrap(read_fields(reader, <<2, 2>>), LAMBDA r :
      unwrap(read_u16s(r.buffer, r.values[2]), LAMBDA arguments :
        unwrap(parse_bootstrap_methods(arguments.buffer,
                                       num_bootstrap_methods - 1),
               LAMBDA rest :
          Built(<<[method_ref |-> r.values[1],
                   arguments |-> arguments.value]>> \o rest.value,
                rest.buffer))))

\* The else branch: an attribute of another name leaves attribute_info at
\* None and reads attribute_length bytes into _sink_buffer.
\* (A variant that reads nothing, to try the properties on.)
skip_attribute_keeping_position(reader, attribute_length) ==
  Built(None, reader)

skip_attribute(reader, attribute_length) ==
  LET r == read_exact(reader, BigEndian(attribute_length)) IN
  IF ~r.ok THEN Panicked(r.buffer) ELSE Built(None, r.buffer)

RECURSIVE parse_attribute_info(_, _)
RECURSIVE parse_attributes(_, _, _, _)

\* The Code branch.  The result of read_exact on the code is dropped: when
\* fewer than code_length bytes are left, the cursor stands at the end of
\* the input and the next read panics.
parse_code_attribute(reader, constant_pool) ==
  unwrap(read_fields(reader, <<2, 2, 4>>), LAMBDA r :
    LET max_stack == r.values[1]
        max_locals == r.values[2]
        code_length == r.values[3]
        buf == read_exact(r.buffer, BigEndian(code_length))
    IN
    unwrap(read_u16(buf.buffer), LAMBDA exception_table_length :
      unwrap(parse_exception_table(exception_table_length.buffer,
                                   exception_table_length.value),
             LAMBDA exception_table_entries :
        unwrap(parse_attribute_info(exception_table_entries.buffer,
                                    constant_pool),
               LAMBDA attributes :
          Built(Some([kind |-> "CodeAttribute",
                      max_stack |-> max_stack,
                      max_locals |-> max_locals,
                      code |-> buf.buf,
                      exception_table |-> exception_table_entries.value,
                      attributes |-> attributes.value,
                      attribute_name |-> NameCode]),
                attributes.buffer)))))

\* The chain of comparisons on attribute_name: Some(attribute_info) of a
\* known name, None of another one.
attribute_body(reader, constant_pool, attribute_name, attribute_length) ==
  CASE attribute_name = NameConstantValue
         -> unwrap(read_u16(reader), LAMBDA const_value_index :
              Built(Some([kind |-> "ConstantValueAttribute",
                          constant_value_index |-> const_value_index.value,
                          attribute_name |-> attribute_name]),
                    const_value_index.buffer))
    [] attribute_name = NameCode
         -> parse_code_attribute(reader, constant_pool)
    [] attribute_name = NameStackMapTable
         -> unwrap(read_u16(reader), LAMBDA number_of_entries :
              unwrap(parse_stack_map_entries(number_of_entries.buffer,
                                             number_of_entries.value),
                     LAMBDA stack_map_entries :
                Built(Some([kind |-> "StackMapTableAttribute",
                            entries |-> stack_map_entries.value,
                            attribute_name |-> NameStackMapTable]),
                      stack_map_entries.buffer)))
    [] attribute_name = NameSourceFile
         -> unwrap(read_u16(reader), LAMBDA source_file_index :
              Built(Some([kind |-> "SourceFileAttribute",
                          source_file_index |-> source_file_index.value,
                          attribute_name |-> NameSourceFile]),
                    source_file_index.buffer))
    [] attribute_name = NameBootstrapMethods
         -> unwrap(read_u16(reader), LAMBDA num_bootstrap_methods :
              unwrap(parse_bootstrap_methods(num_bootstrap_methods.buffer,
                                             num_bootstrap_methods.value),
                     LAMBDA bootstrap_method_table :
                Built(Some([kind |-> "BootstrapMethodsAttribute",
                            bootstrap_methods |->
                              bootstrap_method_table.value,
                            attribute_name |-> NameBootstrapMethods]),
                      bootstrap_method_table.buffer)))
    [] attribute_name = NameNestHost
         -> unwrap(read_u16(reader), LAMBDA host_class_index :
              Built(Some([kind |-> "NestHostAttribute",
                          host_class_index |-> host_class_index.value,
                          attribute_name |-> NameNestHost]),
                    host_class_index.buffer))
    [] attribute_name = NameNestMembers
         -> unwrap(read_u16(reader), LAMBDA num_classes :
              unwrap(read_u16s(num_classes.buffer, num_classes.value),
                     LAMBDA classes :
                Built(Some([kind |-> "NestMembersAttribute",
                            classes |-> classes.value,
                            attribute_name |-> NameNestMembers]),
                      classes.buffer)))
    [] OTHER -> skip_attribute(reader, attribute_length)

\* One turn of the loop of parse_attribute_info: the name, the length, the
\* body and the insertion into `attributes`.
parse_attribute(reader, constant_pool, attributes) ==
  unwrap(read_u16(reader), LAMBDA attribute_name_index :
    IF attribute_name_index.value \notin DOMAIN constant_pool
    THEN Panicked(attribute_name_index.buffer)
    ELSE
      LET attr_name == constant_pool[attribute_name_index.value] IN
      IF attr_name.kind # "ConstantUtf8"
      THEN Panicked(attribute_name_index.buffer)
      ELSE
        LET attribute_name == attr_name.bytes IN
        unwrap(read_u32(attribute_name_index.buffer),
               LAMBDA attribute_length :
          unwrap(attribute_body(attribute_length.buffer, constant_pool,
                                attribute_name, attribute_length.value),
                 LAMBDA attribute_info :
            Built(IF attribute_info.value = None
                  THEN attributes
                  ELSE insert(attributes, attribute_name,
                              attribute_info.value[1]),
                  attribute_info.buffer))))

\* for _ in 0..attribute_count { ... }.
parse_attributes(reader, constant_pool, attribute_count, attributes) ==
  IF attribute_count = 0
  THEN Built(attributes, reader)
  ELSE
    unwrap(parse_attribute(reader, constant_pool, attributes), LAMBDA r :
      parse_attributes(r.buffer, constant_pool, attribute_count - 1,
                       r.value))

\* parse_attribute_info(reader, constant_pool)
\*   -> HashMap<String, AttributeInfo>.
parse_attribute_info(reader, constant_pool) ==
  unwrap(read_u16(reader), LAMBDA attribute_count :
    parse_attributes(attribute_count.buffer, constant_pool,
                     attribute_count.value, HashMap_new))

(***************************************************************************)
(* program.rs: Program.  A &str is the sequence of its characters; an      *)
(* operator gives ok = FALSE where the function panics (an index out of    *)
(* bounds, an unwrap() of None, a panic!).                                 *)
(***************************************************************************)
\* struct Type { t, sub_t }.
Type(t, sub_t) == [t |-> t, sub_t |-> sub_t]

\* Type::new().
Type_new == Type("Int", None)

\* The least number of a non-empty set.
Minimum(S) == CHOOSE x \in S : \A y \in S : x <= y

\* Program::decode_type(type_str) -> Type.  &type_str[0..1] panics on the
\* empty string.  The "[" arm decodes &type_str[1..(type_str.len() - 1)],
\* the string without its first and without its last character.
RECURSIVE decode_type(_)
decode_type(type_str) ==
  IF type_str = <<>>
  THEN [ok |-> FALSE, value |-> Type_new]
  ELSE
    CASE type_str[1] = "I" -> [ok |-> TRUE, value |-> Type("Int", None)]
      [] type_str[1] = "J" -> [ok |-> TRUE, value |-> Type("Long", None)]
      [] type_str[1] = "F" -> [ok |-> TRUE, value |-> Type("Float", None)]
      [] type_str[1] = "D" -> [ok |-> TRUE, value |-> Type("Double", None)]
      [] type_str[1] = "V" -> [ok |-> TRUE, value |-> Type("Void", None)]
      [] type_str[1] = "["
           -> bind(decode_type(SubSeq(type_str, 2, Len(type_str) - 1)),
                   LAMBDA st :
                IF ~st.ok
                THEN st
                ELSE [ok |-> TRUE,
                      value |-> Type("List",
                                     Some(Type(st.value.t, st.value.sub_t)))])
      [] OTHER -> [ok |-> TRUE, value |-> Type("String", None)]

\* Program::decode_type_string_length(t) -> usize.
RECURSIVE decode_type_string_length(_)
decode_type_string_length(t) ==
  CASE t.t = "String" -> 18
    [] t.t = "List" -> 1 + decode_type_string_length(t.sub_t[1])
    [] OTHER -> 1

\* substr(s, start, length) -> &str: &s[start..start + length], a panic
\* when the range leaves the string.
substr(s, start, length) ==
  IF length < 0 \/ start + length > Len(s)
  THEN [ok |-> FALSE, value |-> <<>>]
  ELSE [ok |-> TRUE, value |-> SubSeq(s, start + 1, start + length)]

\* Regex::new(r"\(([^\)]*)\)([^$]+)").captures(bytes): the leftmost match:
\* a "(", the characters up to the next ")", and behind it one or more
\* characters other than "$", as many as there are.  Some of the two
\* groups, None without a match.
captures(bytes) ==
  LET n == Len(bytes)
      Close(p) ==
        LET cs == {q \in (p + 1)..n : bytes[q] = ")"} IN
        IF cs = {} THEN 0 ELSE Minimum(cs)
      Starts == {p \in 1..n : /\ bytes[p] = "("
                              /\ Close(p) # 0
                              /\ Close(p) < n
                              /\ bytes[Close(p) + 1] # "$"}
  IN
  IF Starts = {}
  THEN None
  ELSE LET p == Minimum(Starts)
           q == Close(p)
           dollars == {e \in (q + 1)..n : bytes[e] = "$"}
           last == IF dollars = {} THEN n ELSE Minimum(dollars) - 1
       IN Some(<<SubSeq(bytes, p + 1, q - 1), SubSeq(bytes, q + 1, last)>>)

\* The while loop of parse_method_types: decode the type at the head of
\* arg_string_slice, push it, and go on behind its string length; the
\* subtraction arg_string_slice.len() - length panics below 0.
RECURSIVE decode_arg_types(_, _)
decode_arg_types(arg_string_slice, types) ==
  IF arg_string_slice = <<>>
  THEN [ok |-> TRUE, value |-> types]
  ELSE
    bind(decode_type(arg_string_slice), LAMBDA t :
      IF ~t.ok
      THEN [ok |-> FALSE, value |-> types]
      ELSE
        bind(decode_type_string_length(t.value), LAMBDA length :
          bind(substr(arg_string_slice, length,
                      Len(arg_string_slice) - length),
               LAMBDA rest :
            IF ~rest.ok
            THEN [ok |-> FALSE, value |-> types]
            ELSE decode_arg_types(rest.value, Append(types, t.value)))))

\* Program::parse_method_types(bytes) -> (Vec<Type>, Type).
parse_method_types(bytes) ==
  bind(captures(bytes), LAMBDA caps :
    IF caps = None
    THEN [ok |-> FALSE, value |-> <<>>]
    ELSE
      LET arg_string == caps[1][1]
          return_type_string == caps[1][2]
      IN
      bind(decode_type(return_type_string), LAMBDA ret_type :
        IF ~ret_type.ok
        THEN [ok |-> FALSE, value |-> <<>>]
        ELSE
          bind(decode_arg_types(arg_string, <<>>), LAMBDA types :
            IF ~types.ok
            THEN [ok |-> FALSE, value |-> <<>>]
            ELSE [ok |-> TRUE,
                  value |-> <<types.value, ret_type.value>>])))

\* vec![Method::default(); 256]: the length of the method table.
MethodTableSize == 256

\* impl Default for Method.
Method_default ==
  [name_index |-> 0, return_type |-> Type_new, arg_types |-> <<>>,
   max_stack |-> 0, max_locals |-> 0, code |-> <<>>, constant |-> None,
   stack_map_table |-> None]

\* attr.get(name) where the entry is of the variant `kind`.
get_attribute(attr, name, kind) ==
  IF name \in DOMAIN attr /\ attr[name].kind = kind
  THEN Some(attr[name])
  ELSE None

\* One turn of the loop of Program::new: the Method of method_info, stored
\* at methods[method_info.name_index]; a panic when an index is out of
\* bounds, when the descriptor does not parse or without a Code attribute.
install_method(constants, method_info, methods) ==
  IF \/ method_info.descriptor_index \notin DOMAIN constants
     \/ method_info.name_index \notin DOMAIN constants
  THEN [ok |-> FALSE, value |-> methods]
  ELSE
    LET descriptor == constants[method_info.descriptor_index]
        attr == method_info.attributes
        code_attribute == get_attribute(attr, NameCode, "CodeAttribute")
        constant_value ==
          get_attribute(attr, NameConstantValue, "ConstantValueAttribute")
        stack_map ==
          get_attribute(attr, NameStackMapTable, "StackMapTableAttribute")
    IN
    bind(IF descriptor.kind = "ConstantUtf8"
         THEN parse_method_types(descriptor.bytes)
         ELSE [ok |-> TRUE, value |-> <<<<>>, Type("Void", None)>>],
         LAMBDA parsed_types :
    IF ~parsed_types.ok \/ code_attribute = None
         \/ method_info.name_index \notin DOMAIN methods
    THEN [ok |-> FALSE, value |-> methods]
    ELSE
      LET method ==
            [name_index |-> method_info.name_index,
             return_type |-> parsed_types.value[2],
             arg_types |-> parsed_types.value[1],
             max_stack |-> code_attribute[1].max_stack,
             max_locals |-> code_attribute[1].max_locals,
             code |-> code_attribute[1].code,
             constant |-> IF constant_value = None
                          THEN None
                          ELSE Some(constant_value[1].constant_value_index),
             stack_map_table |-> IF stack_map = None
                                 THEN None
                                 ELSE Some(stack_map[1].entries)]
      IN [ok |-> TRUE,
          value |-> [methods EXCEPT ![method_info.name_index] = method]])

\* for method_info in &class_file.methods() { ... }.
RECURSIVE install_methods(_, _, _)
install_methods(constants, method_infos, methods) ==
  IF method_infos = <<>>
  THEN [ok |-> TRUE, value |-> methods]
  ELSE
    bind(install_method(constants, method_infos[1], methods), LAMBDA r :
      IF ~r.ok
      THEN r
      ELSE install_methods(constants, Tail(method_infos), r.value))

\* Program::new(class_file) -> Program.
Program_new(class_file) ==
  bind(install_methods(
         class_file.constant_pool, class_file.methods,
         [i \in 0..(MethodTableSize - 1) |-> Method_default]),
       LAMBDA methods :
    IF ~methods.ok
    THEN [ok |-> FALSE, value |-> <<>>]
    ELSE [ok |-> TRUE,
          value |-> [constant_pool |-> class_file.constant_pool,
                     methods |-> methods.value]])

\* find_method returning the index of the NameAndType entry in place of its
\* name_index.
find_method_name_and_type(self, method_ref) ==
  IF method_ref \notin DOMAIN self.constant_pool
  THEN [ok |-> FALSE, value |-> 0]
  ELSE IF self.constant_pool[method_ref].kind # "ConstantMethodRef"
  THEN [ok |-> FALSE, value |-> 0]
  ELSE [ok |-> TRUE,
        value |-> self.constant_pool[method_ref].name_and_type_index]

\* Program::find_method(&self, method_ref) -> i32.
find_method(self, method_ref) ==
  IF method_ref \notin DOMAIN self.constant_pool
  THEN [ok |-> FALSE, value |-> 0]
  ELSE
    LET constant == self.constant_pool[method_ref] IN
    IF constant.kind # "ConstantMethodRef"
    THEN [ok |-> FALSE, value |-> 0]
    ELSE IF constant.name_and_type_index \notin DOMAIN self.constant_pool
    THEN [ok |-> FALSE, value |-> 0]
    ELSE
      LET name_and_type == self.constant_pool[constant.name_and_type_index]
      IN
      IF name_and_type.kind = "ConstantNameAndType"
      THEN [ok |-> TRUE, value |-> name_and_type.name_index]
      ELSE [ok |-> TRUE, value |-> 0]

\* The string "main".
NameMain == <<"m", "a", "i", "n">>

\* Program::entry_point(&self) -> usize.  The loop takes the indices of the
\* method table in order: it returns at the first index that holds the
\* Utf8 "main", it panics at the first index behind the end of the pool
\* (constant_pool.get(index) is None), and behind the loop comes 0.
entry_point(self) ==
  bind({index \in DOMAIN self.methods \cap DOMAIN self.constant_pool :
          /\ self.constant_pool[index].kind = "ConstantUtf8"
          /\ self.constant_pool[index].bytes = NameMain},
       LAMBDA hits :
    bind(DOMAIN self.methods \ DOMAIN self.constant_pool, LAMBDA misses :
      CASE hits # {} /\ (misses = {} \/ Minimum(hits) < Minimum(misses))
             -> [ok |-> TRUE, value |-> Minimum(hits)]
        [] hits = {} /\ misses # {} -> [ok |-> FALSE, value |-> 0]
        [] hits # {} /\ misses # {} /\ Minimum(misses) < Minimum(hits)
             -> [ok |-> FALSE, value |-> 0]
        [] OTHER -> [ok |-> TRUE, value |-> 0]))

\* Program::code(&self, method_index) -> &[u8].
code(self, method_index) ==
  IF method_index \notin DOMAIN self.methods
  THEN [ok |-> FALSE, value |-> <<>>]
  ELSE [ok |-> TRUE, value |-> self.methods[method_index].code]

\* Program::max_locals(&self, method_index) -> u16.
max_locals(self, method_index) ==
  IF method_index \notin DOMAIN self.methods
  THEN [ok |-> FALSE, value |-> 0]
  ELSE [ok |-> TRUE, value |-> self.methods[method_index].max_locals]

(***************************************************************************)
(* runtime.rs: Runtime.  An operator gives ok = FALSE where the function   *)
(* panics (todo!(), panic!, an index out of bounds).                       *)
(***************************************************************************)
\* struct State: a frame.
State(pc, stack, locals) == [pc |-> pc, stack |-> stack, locals |-> locals]

\* Runtime::new(program) -> Self.
Runtime_new(program) ==
  bind(entry_point(program), LAMBDA main :
    [ok |-> main.ok,
     value |-> [program |-> program,
                states |-> <<State(ProgramCounter(main.value, 0), <<>>,
                                   HashMap_new)>>]])

\* (push putting the value in place of the operand stack, to try the
\* properties on.)
push_replacing_stack(self, value) ==
  IF self.states = <<>>
  THEN self
  ELSE [self EXCEPT !.states[Len(self.states)].stack = <<value>>]

\* Runtime::push(&mut self, value).
push(self, value) ==
  IF self.states = <<>>
  THEN self
  ELSE [self EXCEPT !.states[Len(self.states)].stack = Append(@, value)]

\* The arms of eval that push a constant: the opcodes and the values.
ConstOPCodes ==
  {"IconstM1", "Iconst0", "Iconst1", "Iconst2", "Iconst3", "Iconst4",
   "Iconst5", "Lconst0", "Lconst1", "Fconst0", "Fconst1", "Fconst2",
   "Dconst0", "Dconst1"}

ConstValue(mnemonic) ==
  CASE mnemonic = "IconstM1" -> ValueInt(-1)
    [] mnemonic = "Iconst0" -> ValueInt(0)
    [] mnemonic = "Iconst1" -> ValueInt(1)
    [] mnemonic = "Iconst2" -> ValueInt(2)
    [] mnemonic = "Iconst3" -> ValueInt(3)
    [] mnemonic = "Iconst4" -> ValueInt(4)
    [] mnemonic = "Iconst5" -> ValueInt(5)
    [] mnemonic = "Lconst0" -> ValueLong(0)
    [] mnemonic = "Lconst1" -> ValueLong(1)
    [] mnemonic = "Fconst0" -> ValueFloat(0)
    [] mnemonic = "Fconst1" -> ValueFloat(1)
    [] mnemonic = "Fconst2" -> ValueFloat(2)
    [] mnemonic = "Dconst0" -> ValueDouble(0)
    [] mnemonic = "Dconst1" -> ValueDouble(1)

\* The arms of eval that are todo!(): loads, stores, comparisons and the
\* returns with a value.
TodoOPCodes ==
  {"ILoad", "LLoad", "FLoad", "DLoad",
   "ILoad0", "LLoad0", "FLoad0", "DLoad0",
   "ILoad1", "LLoad1", "FLoad1", "DLoad1",
   "ILoad2", "LLoad2", "FLoad2", "DLoad2",
   "ILoad3", "LLoad3", "FLoad3", "DLoad3",
   "IStore", "LStore", "FStore", "DStore",
   "IStore1", "LStore1", "FStore1", "DStore1",
   "IStore2", "LStore2", "FStore2", "DStore2",
   "IStore3", "LStore3", "FStore3", "DStore3",
   "LCmp", "FCmpL", "FCmpG", "DCmpL", "DCmpG",
   "IReturn", "LReturn", "FReturn", "DReturn"}

\* (The Return arm keeping the frame, to try the properties on.)
eval_return_keeps_frame(self) == self

\* The Return arm of eval: self.states.pop().
eval_return(self) ==
  [self EXCEPT !.states = SubSeq(@, 1, Len(@) - 1)]

\* Runtime::eval(&mut self, inst): the runtime after the call.  Every
\* opcode without an arm of its own takes the arm `_ => ()`.
eval(self, inst) ==
  IF self.states = <<>>
  THEN [ok |-> TRUE, self |-> self]
  ELSE
    CASE inst.mnemonic \in ConstOPCodes
           -> [ok |-> TRUE, self |-> push(self, ConstValue(inst.mnemonic))]
      [] inst.mnemonic \in {"BiPush", "SiPush", "Ldc", "Ldc2W"}
           -> IF inst.params = None
              THEN [ok |-> FALSE, self |-> self]
              ELSE [ok |-> TRUE, self |-> push(self, inst.params[1][1])]
      [] inst.mnemonic \in TodoOPCodes -> [ok |-> FALSE, self |-> self]
      [] inst.mnemonic = "Return"
           -> [ok |-> TRUE, self |-> eval_return(self)]
      [] inst.mnemonic = "Nop" -> [ok |-> TRUE, self |-> self]
      [] OTHER -> [ok |-> TRUE, self |-> self]

\* Runtime::encode_arg(lo, hi) -> i32: (lo as i32) << 8 | hi as i32.  Both
\* bytes are widened without sign, and the low byte of lo << 8 is 0, so
\* that the bitwise or is the sum.
encode_arg(lo, hi) == lo * 256 + hi

\* (next leaving the instruction index where it is, to try the properties
\* on.)
next_keeping_index(self, state) ==
  bind(code(self.program, state.pc.method_index), LAMBDA method_code :
    IF ~method_code.ok
         \/ state.pc.instruction_index >= Len(method_code.value)
    THEN [ok |-> FALSE, bc |-> 0, state |-> state]
    ELSE [ok |-> TRUE,
          bc |-> method_code.value[state.pc.instruction_index + 1],
          state |-> state])

\* Runtime::next(&mut self, state) -> u8: the byte at the program counter
\* of the frame, and the frame with its instruction index moved by one.
next(self, state) ==
  bind(code(self.program, state.pc.method_index), LAMBDA method_code :
    IF ~method_code.ok
         \/ state.pc.instruction_index >= Len(method_code.value)
    THEN [ok |-> FALSE, bc |-> 0, state |-> state]
    ELSE [ok |-> TRUE,
          bc |-> method_code.value[state.pc.instruction_index + 1],
          state |-> [state EXCEPT !.pc.instruction_index = @ + 1]])

\* n calls of next in a row: the bytes in the order read.
RECURSIVE next_n(_, _, _)
next_n(self, state, n) ==
  IF n = 0
  THEN [ok |-> TRUE, bytes |-> <<>>, state |-> state]
  ELSE
    bind(next(self, state), LAMBDA r :
      IF ~r.ok
      THEN [ok |-> FALSE, bytes |-> <<>>, state |-> state]
      ELSE
        bind(next_n(self, r.state, n - 1), LAMBDA rest :
          [ok |-> rest.ok, bytes |-> <<r.bc>> \o rest.bytes,
           state |-> rest.state]))

\* The arms of `match mnemonic` in fetch.
TwoByteOPCodes ==
  {"SiPush", "IfEq", "IfNe", "IfLt", "IfLe", "IfGt", "IfGe", "IfICmpEq",
   "IfICmpNe", "IfICmpLt", "IfICmpLe", "IfICmpGt", "IfICmpGe", "Goto"}

TwoBytesOPCodes == {"InvokeSpecial", "GetStatic", "InvokeVirtual", "IInc"}

OneByteOPCodes ==
  {"BiPush", "ILoad", "FLoad", "LLoad", "DLoad", "IStore", "FStore",
   "LStore", "DStore"}

\* The number of calls of next in the arm of a mnemonic.
OperandBytes(mnemonic) ==
  CASE mnemonic \in TwoByteOPCodes \cup TwoBytesOPCodes \cup {"InvokeStatic"}
         -> 2
    [] mnemonic \in OneByteOPCodes -> 1
    [] OTHER -> 0

\* The params that the arm of a mnemonic builds from the bytes read.
fetch_params(self, mnemonic, bytes) ==
  CASE mnemonic \in TwoByteOPCodes
         -> [ok |-> TRUE,
             value |-> Some(<<ValueInt(encode_arg(bytes[1], bytes[2]))>>)]
    [] mnemonic \in TwoBytesOPCodes
         -> [ok |-> TRUE,
             value |-> Some(<<ValueInt(bytes[1]), ValueInt(bytes[2])>>)]
    [] mnemonic \in OneByteOPCodes
         -> [ok |-> TRUE, value |-> Some(<<ValueInt(bytes[1])>>)]
    [] mnemonic = "InvokeStatic"
         -> LET method_ref_index == encode_arg(bytes[1], bytes[2]) IN
            bind(find_method(self.program, method_ref_index),
                 LAMBDA method_name_index :
              IF ~method_name_index.ok
              THEN [ok |-> FALSE, value |-> None]
              ELSE [ok |-> TRUE,
                    value |-> Some(<<ValueInt(method_name_index.value)>>)])
    [] OTHER -> [ok |-> TRUE, value |-> None]

\* Runtime::fetch(&mut self) -> Instruction: the runtime after the call and
\* the instruction.  The top frame is popped, read from, and pushed back.
fetch(self) ==
  IF self.states = <<>>
  THEN [ok |-> FALSE, self |-> self, inst |-> None]
  ELSE
    bind(self.states[Len(self.states)], LAMBDA state :
    bind([self EXCEPT !.states = SubSeq(@, 1, Len(@) - 1)], LAMBDA popped :
    bind(next(popped, state), LAMBDA opcode :
      IF ~opcode.ok
      THEN [ok |-> FALSE, self |-> self, inst |-> None]
      ELSE
        bind(OPCodeFromU8(opcode.bc), LAMBDA mnemonic :
        bind(next_n(popped, opcode.state, OperandBytes(mnemonic)),
             LAMBDA operands :
          IF ~operands.ok
          THEN [ok |-> FALSE, self |-> self, inst |-> None]
          ELSE
            bind(fetch_params(popped, mnemonic, operands.bytes),
                 LAMBDA params :
              IF ~params.ok
              THEN [ok |-> FALSE, self |-> self, inst |-> None]
              ELSE [ok |-> TRUE,
                    self |-> [popped EXCEPT
                                !.states = Append(@, operands.state)],
                    inst |-> Instruction(mnemonic, params.value)]))))))

\* One turn of the loop of Runtime::run, on the runtime `self`, the place
\* `run` of the call ("loop" while the loop goes on, "returned" behind
\* Ok(()), "panicked") and the instruction `inst` fetched last: fetch, eval,
\* and the test !self.states.is_empty().
run_iteration(r) ==
  bind(fetch(r.self), LAMBDA fetched :
    IF ~fetched.ok
    THEN [r EXCEPT !.run = "panicked"]
    ELSE
      bind(eval(fetched.self, fetched.inst), LAMBDA evaluated :
        IF ~evaluated.ok
        THEN [self |-> fetched.self, run |-> "panicked",
              inst |-> Some(fetched.inst)]
        ELSE [self |-> evaluated.self,
              run |-> IF evaluated.self.states = <<>>
                      THEN "returned"
                      ELSE "loop",
              inst |-> Some(fetched.inst)]))

(***************************************************************************)
(* The recorder as a state machine: `recorder` holds the fields of the     *)
(* Recorder, and every action is one call of a public method; `returned`  *)
(* is the Trace the caller holds, None while it holds none.  `input` is    *)
(* the class file handed to the parser and `parsed` the result of parse,   *)
(* both None while the parser is not used.  `invocation` is a call of a  *)
(* function of the parser or of Program with its arguments and `outcome`   *)
(* what it returns; `runtime` holds the fields of the Runtime during run.  *)
(***************************************************************************)
VARIABLES recorder, returned, input, parsed, invocation, outcome, runtime

vars == <<recorder, returned, input, parsed, invocation, outcome, runtime>>

\* The program counters of the model: a program of two methods, method 0
\* with the instruction indices 0 and 1 and method 1 with the index 0.  The
\* recorder compares method indices for equality only, and moves
\* instruction indices by the offset of a goto.
PCs == {ProgramCounter(0, 0), ProgramCounter(0, 1), ProgramCounter(1, 0)}

\* The instructions with opcode `mnemonic`, with the parameters the
\* interpreter attaches at fetch: a branch offset (backward, to itself or
\* forward for a goto), the resolved name index of
\* an invokestatic, one or two operand bytes, or none.
OperandInsts(mnemonic) ==
  CASE mnemonic = "Goto"
         -> {Instruction(mnemonic, Some(<<ValueInt(o)>>)) : o \in {-1, 0, 1}}
    [] mnemonic \in {"SiPush", "IfEq", "IfNe", "IfLt", "IfLe", "IfGt", "IfGe",
                     "IfICmpEq", "IfICmpNe", "IfICmpLt", "IfICmpLe",
                     "IfICmpGt", "IfICmpGe"}
         -> {Instruction(mnemonic, Some(<<ValueInt(1)>>))}
    [] mnemonic = "InvokeStatic"
         -> {Instruction(mnemonic, Some(<<ValueInt(pc.method_index)>>)) :
               pc \in PCs}
    [] mnemonic \in {"InvokeSpecial", "GetStatic", "InvokeVirtual", "IInc"}
         -> {Instruction(mnemonic, Some(<<ValueInt(0), ValueInt(1)>>))}
    [] mnemonic \in {"BiPush", "ILoad", "FLoad", "LLoad", "DLoad", "IStore",
                     "FStore", "LStore", "DStore"}
         -> {Instruction(mnemonic, Some(<<ValueInt(1)>>))}
    [] OTHER -> {Instruction(mnemonic, None)}

\* One opcode of every arm of record and of is_done_recording.
ArmOPCodes ==
  {"Goto", "IfEq", "InvokeStatic", "IReturn", "ILoad1", "IAdd"}

\* The instructions recorded under Spec.
Insts == UNION {OperandInsts(m) : m \in ArmOPCodes}

\* The instructions recorded under SpecOps: every opcode of the table.
AllInsts == UNION {OperandInsts(m) : m \in OPCodes}

\* The program counters of SpecOps.
OpsPCs == {ProgramCounter(0, 0)}

\* A backward goto of well-formed code lands inside its method, so that the
\* target's instruction index (a usize) exists.
WellFormed(pc, inst) ==
  (get_mnemonic(inst) = "Goto" /\ nth(inst, 0)[1].val <= 0)
    => pc.instruction_index + nth(inst, 0)[1].val >= 0

Init ==
  /\ recorder = Recorder_new
  /\ returned = None
  /\ input = None
  /\ parsed = None
  /\ invocation = None
  /\ outcome = None
  /\ runtime = None

\* A call of init with arguments among pcs.
InitCall(pcs) ==
  \E loop_header \in pcs, start \in pcs :
    /\ recorder' = init(recorder, loop_header, start)
    /\ UNCHANGED <<returned, input, parsed, invocation, outcome, runtime>>

\* A call of record with a pc among pcs and an instruction among insts; the
\* buffer takes at most maxlen records.
RecordCall(pcs, insts, maxlen) ==
  \E pc \in pcs, inst \in insts :
    /\ WellFormed(pc, inst)
    /\ Len(record(recorder, pc, inst).trace) <= maxlen
    /\ recorder' = record(recorder, pc, inst)
    /\ UNCHANGED <<returned, input, parsed, invocation, outcome, runtime>>

\* A call of is_done_recording with a pc among pcs.
IsDoneRecordingCall(pcs) ==
  \E pc \in pcs :
    /\ recorder' = is_done_recording(recorder, pc).self
    /\ UNCHANGED <<returned, input, parsed, invocation, outcome, runtime>>

\* A call of recording whose Trace the caller drops.
RecordingCall ==
  /\ recorder' = recording(recorder).self
  /\ UNCHANGED <<returned, input, parsed, invocation, outcome, runtime>>

\* A call of recording whose Trace the caller keeps, in place of the one it
\* held.
RecordingKeepCall ==
  /\ recorder' = recording(recorder).self
  /\ returned' = Some(recording(recorder).ret)
  /\ UNCHANGED <<input, parsed, invocation, outcome, runtime>>

Next ==
  \/ InitCall(PCs)
  \/ RecordCall(PCs, Insts, MaxTrace)
  \/ IsDoneRecordingCall(PCs)
  \/ RecordingCall

Spec == Init /\ [][Next]_vars

(***************************************************************************)
(* SpecOps: record applied to every opcode of the table, on a recorder     *)
(* that holds no record yet.                                               *)
(***************************************************************************)
NextOps ==
  \/ InitCall(OpsPCs)
  \/ RecordCall(OpsPCs, AllInsts, 1)
  \/ IsDoneRecordingCall(OpsPCs)
  \/ RecordingCall

SpecOps == Init /\ [][NextOps]_vars

(***************************************************************************)
(* SpecTrace: the caller keeps the Trace that recording returns while it   *)
(* goes on to call init and record.                                        *)
(***************************************************************************)
NextTrace ==
  \/ InitCall(OpsPCs)
  \/ RecordCall(OpsPCs, Insts, 1)
  \/ IsDoneRecordingCall(OpsPCs)
  \/ RecordingKeepCall

SpecTrace == Init /\ [][NextTrace]_vars

(***************************************************************************)
(* SpecParse: parse applied to class files and to their prefixes.  A class *)
(* file of the model has a magic number, up to MaxEntries constant-pool    *)
(* entries, constant_pool_count = 1 + the pool indices its entries take    *)
(* (two for a Long or a Double), at most one interface and one field.      *)
(***************************************************************************)
\* The big-endian bytes of a u16 and of a small u32.
U16(v) == <<v \div 256, v % 256>>

U32(v) == U16(v \div 65536) \o U16(v % 65536)

\* The magic numbers of the model: 0xCAFEBABE and 0xDEADBEEF.
Magics == {JVM_CLASS_FILE_MAGIC, <<222, 173, 190, 239>>}

\* The constant-pool entries of the model, by tag: a Utf8 "A", a Long 1, a
\* Double, a NameAndType (tag 12) and an entry with the undefined tag 2.
EntryBytes(tag) ==
  CASE tag = 1 -> <<1>> \o U16(1) \o <<65>>
    [] tag = 5 -> <<5>> \o U32(0) \o U32(1)
    [] tag = 6 -> <<6>> \o U32(0) \o U32(0)
    [] tag = 12 -> <<12>> \o U16(1) \o U16(1)
    [] tag = 2 -> <<2>> \o U16(1)

EntryTags == {1, 5, 6, 12, 2}

\* The pool indices an entry takes.
Slots(tag) == IF tag \in {5, 6} THEN 2 ELSE 1

RECURSIVE SumSlots(_)
SumSlots(entries) ==
  IF entries = <<>> THEN 0 ELSE Slots(entries[1]) + SumSlots(Tail(entries))

\* The concatenation of a sequence of sequences.
RECURSIVE Concat(_)
Concat(strings) ==
  IF strings = <<>> THEN <<>> ELSE strings[1] \o Concat(Tail(strings))

\* The class files of the model; the file without entries also comes with
\* constant_pool_count = 0.
ClassFiles ==
  {[magic |-> magic, constant_pool_count |-> count, entries |-> entries,
    interfaces_count |-> interfaces_count, fields_count |-> fields_count] :
     magic \in Magics,
     count \in {0},
     entries \in {<<>>},
     interfaces_count \in {0},
     fields_count \in {0}}
  \cup
  {[magic |-> magic, constant_pool_count |-> 1 + SumSlots(entries),
    entries |-> entries,
    interfaces_count |-> interfaces_count, fields_count |-> fields_count] :
     magic \in Magics,
     entries \in UNION {[1..n -> EntryTags] : n \in 0..MaxEntries},
     interfaces_count \in {0, 1},
     fields_count \in {0, 1}}

\* The bytes of a class file up to the constant pool, and all of them:
\* after the pool come access_flags, this_class, super_class, the
\* interfaces and the fields.
PoolBytes(file) ==
  file.magic \o U16(0) \o U16(52) \o U16(file.constant_pool_count)
    \o Concat([i \in 1..Len(file.entries) |-> EntryBytes(file.entries[i])])

ClassFileBytes(file) ==
  PoolBytes(file) \o U16(33) \o U16(1) \o U16(2)
    \o U16(file.interfaces_count)
    \o (IF file.interfaces_count = 1 THEN U16(3) ELSE <<>>)
    \o U16(file.fields_count)
    \o (IF file.fields_count = 1 THEN U16(1) \o U16(4) \o U16(5) ELSE <<>>)

\* An input of parse is the first `cut` bytes of a class file.
InputBytes(inp) == SubSeq(ClassFileBytes(inp.file), 1, inp.cut)

InitParse ==
  /\ recorder = Recorder_new
  /\ returned = None
  /\ \E file \in ClassFiles :
       \E cut \in 0..Len(ClassFileBytes(file)) :
         input = Some([file |-> file, cut |-> cut])
  /\ parsed = None
  /\ invocation = None
  /\ outcome = None
  /\ runtime = None

\* A call of parse with the input.
ParseCall ==
  /\ input # None
  /\ parsed = None
  /\ parsed' = Some(parse(InputBytes(input[1])))
  /\ UNCHANGED <<recorder, returned, input, invocation, outcome, runtime>>

NextParse == ParseCall

SpecParse == InitParse /\ [][NextParse]_vars

(***************************************************************************)
(* SpecAttr: parse_attribute_info applied to attribute blocks of up to     *)
(* MaxAttrs attributes, over one constant pool that holds the names.       *)
(***************************************************************************)
\* The constant pool of the attribute blocks: the names at the indices 1 to
\* 9 and a Class entry at index 10; parse_attribute_info compares with
\* neither "Deprecated" nor "Signature".
AttrPool ==
  LET entries == <<CPInfoUnspecified,
                   ConstantUtf8(NameCode),
                   ConstantUtf8(NameSourceFile),
                   ConstantUtf8(NameConstantValue),
                   ConstantUtf8(NameStackMapTable),
                   ConstantUtf8(NameNestHost),
                   ConstantUtf8(NameNestMembers),
                   ConstantUtf8(NameBootstrapMethods),
                   ConstantUtf8(<<"D", "e", "p", "r", "e", "c", "a", "t", "e",
                                  "d">>),
                   ConstantUtf8(<<"S", "i", "g", "n", "a", "t", "u", "r", "e">>),
                   [kind |-> "ConstantClass", name_index |-> 1]>>
  IN [i \in 0..(Len(entries) - 1) |-> entries[i + 1]]

\* The bytes of one attribute: attribute_name_index, attribute_length and
\* the body, attribute_length being the length of the body.
AttributeBytes(attr) ==
  U16(attr.name_index) \o U32(Len(attr.body)) \o attr.body

\* The bytes of an attribute block: attribute_count and the attributes.
BlockBytes(attrs) ==
  U16(Len(attrs)) \o Concat([i \in 1..Len(attrs) |-> AttributeBytes(attrs[i])])

\* The body of a Code attribute with one byte of code (return), no
\* exception handler and the nested attributes `attrs`.
CodeBody(attrs) ==
  U16(2) \o U16(1) \o U32(1) \o <<177>> \o U16(0) \o BlockBytes(attrs)

\* The attributes of the model: one of every known name (two stack map
\* tables, with the frames Same and Full, SameLocals and Append; a Code
\* with and without a nested attribute), a Deprecated without body, a
\* Signature, a Signature whose body is the bytes of a SourceFile
\* attribute, and an attribute whose name index points to the Class entry.
AttributeShapes ==
  {[name_index |-> 3, body |-> U16(7)],
   [name_index |-> 2, body |-> U16(9)],
   [name_index |-> 5, body |-> U16(10)],
   [name_index |-> 6, body |-> U16(1) \o U16(10)],
   [name_index |-> 7, body |-> U16(1) \o U16(2) \o U16(1) \o U16(3)],
   [name_index |-> 4,
    body |-> U16(2) \o <<0>> \o <<255>> \o U16(5) \o U16(1) \o U16(1)
               \o <<1>> \o <<7>> \o U16(10)],
   [name_index |-> 4,
    body |-> U16(2) \o <<64, 1>> \o <<252>> \o U16(3) \o <<8>> \o U16(4)],
   [name_index |-> 1, body |-> CodeBody(<<>>)],
   [name_index |-> 1,
    body |-> CodeBody(<<[name_index |-> 9, body |-> U16(2)]>>)],
   [name_index |-> 8, body |-> <<>>],
   [name_index |-> 9, body |-> U16(2)],
   [name_index |-> 9,
    body |-> AttributeBytes([name_index |-> 2, body |-> U16(9)])],
   [name_index |-> 10, body |-> <<>>]}

\* The bytes of a Full frame as the class-file format lays it out: the
\* frame type 255, offset_delta, number_of_locals, the locals,
\* number_of_stack_items, the stack; `locals` and `stack` are sequences of
\* verification entries, each the bytes of one entry.
FullFrameBytes(offset_delta, locals, stack) ==
  <<255>> \o U16(offset_delta) \o U16(Len(locals)) \o Concat(locals)
    \o U16(Len(stack)) \o Concat(stack)

InitAttr ==
  /\ recorder = Recorder_new
  /\ returned = None
  /\ input = None
  /\ parsed = None
  /\ \/ \E n \in 0..MaxAttrs :
          \E attrs \in [1..n -> AttributeShapes] :
            invocation = Some([fn |-> "parse_attribute_info",
                               attributes |-> attrs])
     \/ \* A StackMapTable of one Full frame; the entries are Top,
        \* Integer and Object with the class at index 10.
        \E n \in 0..MaxFrameEntries, k \in 0..MaxFrameEntries :
          \E locals \in [1..n -> {<<0>>, <<1>>, <<7, 0, 10>>}] :
            \E stack \in [1..k -> {<<0>>, <<1>>, <<7, 0, 10>>}] :
              invocation = Some([fn |-> "full_frame",
                                 locals |-> locals, stack |-> stack])
  /\ outcome = None
  /\ runtime = None

\* A call of parse_attribute_info on the bytes of the block.
ParseAttributeInfoCall ==
  /\ invocation # None
  /\ invocation[1].fn = "parse_attribute_info"
  /\ outcome = None
  /\ outcome' = Some(parse_attribute_info(
                       Cursor_new(BlockBytes(invocation[1].attributes)),
                       AttrPool))
  /\ UNCHANGED <<recorder, returned, input, parsed, invocation, runtime>>

\* A call of parse_attribute_info on the block of one StackMapTable
\* attribute with one frame, the Full frame of the locals and the stack,
\* with offset_delta = 5.
FullFrameCall ==
  /\ invocation # None
  /\ invocation[1].fn = "full_frame"
  /\ outcome = None
  /\ outcome' =
       Some(parse_attribute_info(
              Cursor_new(BlockBytes(
                <<[name_index |-> 4,
                   body |-> U16(1) \o FullFrameBytes(5, invocation[1].locals,
                                                     invocation[1].stack)]>>)),
              AttrPool))
  /\ UNCHANGED <<recorder, returned, input, parsed, invocation, runtime>>

NextAttr == ParseAttributeInfoCall \/ FullFrameCall

SpecAttr == InitAttr /\ [][NextAttr]_vars

(***************************************************************************)
(* SpecProgram: the functions of Program applied to constant pools, class  *)
(* files and descriptors of the model.                                     *)
(***************************************************************************)
\* A constant pool of `size` entries with the Utf8 "main" at index `at`,
\* without it when at = 0: index 0 is the unused entry, the other entries
\* are Class entries.
MainPool(size, at) ==
  [i \in 0..(size - 1) |->
     IF i = 0 THEN CPInfoUnspecified
     ELSE IF i = at THEN ConstantUtf8(NameMain)
     ELSE [kind |-> "ConstantClass", name_index |-> at]]

\* The constant pool of the class files of the model: "main" at index 1,
\* the descriptors at 2 and 4, the method names "f" at index 3 and "g" at
\* index 256, Class entries elsewhere.
ClassPool ==
  [i \in 0..(MethodTableSize + 1) |->
     CASE i = 0 -> CPInfoUnspecified
       [] i = 1 -> ConstantUtf8(NameMain)
       [] i = 2 -> ConstantUtf8(<<"(", ")", "V">>)
       [] i = 3 -> ConstantUtf8(<<"f">>)
       [] i = 4 -> ConstantUtf8(<<"(", "I", ")", "I">>)
       [] i = MethodTableSize -> ConstantUtf8(<<"g">>)
       [] OTHER -> [kind |-> "ConstantClass", name_index |-> 3]]

\* The Code attribute of a method: max_stack, max_locals and the code.
CodeAttribute(stack_limit, locals_limit, bytes) ==
  [kind |-> "CodeAttribute", max_stack |-> stack_limit,
   max_locals |-> locals_limit, code |-> bytes, exception_table |-> <<>>,
   attributes |-> HashMap_new, attribute_name |-> NameCode]

\* struct MethodInfo, with the attributes as parse_attribute_info gives
\* them.
MethodInfo(name_index, descriptor_index, attributes) ==
  [access_flag |-> 9, name_index |-> name_index,
   descriptor_index |-> descriptor_index, attributes |-> attributes]

\* The methods of the model: named "main", "f" or "g"; "()V" with the code
\* return, or "(I)I" with the code iload_0, ireturn; and a method "f"
\* without a Code attribute.
MethodInfos ==
  {MethodInfo(name_index, 2,
              insert(HashMap_new, NameCode, CodeAttribute(0, 0, <<177>>))) :
     name_index \in {1, 3, MethodTableSize}}
  \cup
  {MethodInfo(name_index, 4,
              insert(HashMap_new, NameCode,
                     CodeAttribute(1, 1, <<26, 172>>))) :
     name_index \in {1, 3, MethodTableSize}}
  \cup
  {MethodInfo(3, 2, HashMap_new)}

\* The class file of a sequence of methods: Program::new reads its
\* constant pool and its methods.
ClassFileOf(method_infos) ==
  [constant_pool |-> ClassPool, methods |-> method_infos]

\* The constant pool of the calls of find_method: a MethodRef at index 1
\* whose NameAndType at index 2 names the Utf8 at index k; a MethodRef at 6
\* whose name_and_type_index points to a Utf8 entry, one at 7 whose
\* name_and_type_index is out of the pool, and a FieldRef at 8.
RefPool(k) ==
  LET entries ==
        <<CPInfoUnspecified,
          [kind |-> "ConstantMethodRef", class_index |-> 5,
           name_and_type_index |-> 2],
          [kind |-> "ConstantNameAndType", name_index |-> k,
           descriptor_index |-> 4],
          ConstantUtf8(<<"f">>),
          ConstantUtf8(<<"(", ")", "V">>),
          [kind |-> "ConstantClass", name_index |-> 3],
          [kind |-> "ConstantMethodRef", class_index |-> 5,
           name_and_type_index |-> 3],
          [kind |-> "ConstantMethodRef", class_index |-> 5,
           name_and_type_index |-> 9],
          [kind |-> "ConstantFieldRef", class_index |-> 5,
           name_and_type_index |-> 2]>>
  IN [i \in 0..(Len(entries) - 1) |-> entries[i + 1]]

\* The program of a constant pool, without methods.
ProgramOf(pool) ==
  Program_new([constant_pool |-> pool, methods |-> <<>>]).value

\* The type strings of the descriptor grammar in the model: the five
\* primitive characters and arrays of them, up to two dimensions.
TypeStrings ==
  LET Primitive == {<<"I">>, <<"J">>, <<"F">>, <<"D">>, <<"V">>} IN
  Primitive \cup {<<"[">> \o t : t \in {<<"I">>, <<"J">>, <<"[", "I">>}}

\* The descriptor of argument type strings and a return type string.
DescriptorOf(args, ret) == <<"(">> \o Concat(args) \o <<")">> \o ret

InitProgram ==
  /\ recorder = Recorder_new
  /\ returned = None
  /\ input = None
  /\ parsed = None
  /\ \/ \* Pools below, at and above the length of the method table.
        \E size \in {3, MethodTableSize, MethodTableSize + 1,
                     MethodTableSize + 2} :
          \E at \in {p \in {0, 1, 2, MethodTableSize - 1, MethodTableSize,
                             MethodTableSize + 1} : p < size} :
            invocation = Some([fn |-> "entry_point",
                               size |-> size, at |-> at])
     \/ \E n \in 0..MaxMethods :
          \E method_infos \in [1..n -> MethodInfos] :
            invocation = Some([fn |-> "Program_new",
                               methods |-> method_infos])
     \/ \E k \in {0, 3, 4} :
          \E method_ref \in 0..9 :
            invocation = Some([fn |-> "find_method", k |-> k,
                               method_ref |-> method_ref])
     \/ \E n \in 0..MaxArgs :
          \E args \in [1..n -> TypeStrings] :
            \E ret \in TypeStrings :
              invocation = Some([fn |-> "parse_method_types",
                                 args |-> args, ret |-> ret])
  /\ outcome = None
  /\ runtime = None

\* A call of entry_point on the program of the pool.
EntryPointCall ==
  /\ invocation # None
  /\ invocation[1].fn = "entry_point"
  /\ outcome = None
  /\ outcome' = Some(entry_point(
                       ProgramOf(MainPool(invocation[1].size,
                                          invocation[1].at))))
  /\ UNCHANGED <<recorder, returned, input, parsed, invocation, runtime>>

\* A call of Program::new on the class file of the methods.
ProgramNewCall ==
  /\ invocation # None
  /\ invocation[1].fn = "Program_new"
  /\ outcome = None
  /\ outcome' = Some(Program_new(ClassFileOf(invocation[1].methods)))
  /\ UNCHANGED <<recorder, returned, input, parsed, invocation, runtime>>

\* A call of find_method on the program of the pool.
FindMethodCall ==
  /\ invocation # None
  /\ invocation[1].fn = "find_method"
  /\ outcome = None
  /\ outcome' = Some(find_method(ProgramOf(RefPool(invocation[1].k)),
                                 invocation[1].method_ref))
  /\ UNCHANGED <<recorder, returned, input, parsed, invocation, runtime>>

\* A call of parse_method_types on the descriptor.
ParseMethodTypesCall ==
  /\ invocation # None
  /\ invocation[1].fn = "parse_method_types"
  /\ outcome = None
  /\ outcome' = Some(parse_method_types(
                       DescriptorOf(invocation[1].args, invocation[1].ret)))
  /\ UNCHANGED <<recorder, returned, input, parsed, invocation, runtime>>

NextProgram ==
  \/ EntryPointCall
  \/ ProgramNewCall
  \/ FindMethodCall
  \/ ParseMethodTypesCall

SpecProgram == InitProgram /\ [][NextProgram]_vars

(***************************************************************************)
(* SpecRun: Runtime::run on the programs of one class with the methods     *)
(* "main" and "f", the code of main being up to MaxCode instructions.      *)
(***************************************************************************)
\* The constant pool of the class: "main" at index 1, "f" at index 3, and
\* at index 5 the MethodRef of f, with its NameAndType at index 6.
RunPool ==
  LET entries ==
        <<CPInfoUnspecified,
          ConstantUtf8(NameMain),
          ConstantUtf8(<<"(", ")", "V">>),
          ConstantUtf8(<<"f">>),
          ConstantUtf8(<<"(", "I", ")", "I">>),
          [kind |-> "ConstantMethodRef", class_index |-> 7,
           name_and_type_index |-> 6],
          [kind |-> "ConstantNameAndType", name_index |-> 3,
           descriptor_index |-> 4],
          [kind |-> "ConstantClass", name_index |-> 3]>>
  IN [i \in 0..(Len(entries) - 1) |-> entries[i + 1]]

\* The class file whose main has the code `bytes`; f is iload_0, ireturn.
RunClassFile(bytes) ==
  [constant_pool |-> RunPool,
   methods |->
     <<MethodInfo(1, 2, insert(HashMap_new, NameCode,
                               CodeAttribute(2, 1, bytes))),
       MethodInfo(3, 4, insert(HashMap_new, NameCode,
                               CodeAttribute(1, 1, <<26, 172>>)))>>]

\* The instructions of main, as bytes: nop, iconst_2, iconst_3, iadd,
\* ireturn, return, bipush -1, sipush 256, goto -12, ifeq -12,
\* invokestatic #5, athrow and the byte 203, which is no opcode.
InstructionBytes ==
  {<<0>>, <<5>>, <<6>>, <<96>>, <<172>>, <<177>>, <<16, 255>>,
   <<17, 1, 0>>, <<167, 255, 244>>, <<153, 255, 244>>, <<184, 0, 5>>,
   <<191>>, <<203>>}

\* iconst_2, iconst_3, iadd, ireturn.
IntegerArithmeticCode == <<5, 6, 96, 172>>

\* The runtime of the class whose main has the code `bytes`, at the start
\* of run.
RuntimeOf(bytes) ==
  [self |-> Runtime_new(Program_new(RunClassFile(bytes)).value).value,
   run |-> "loop",
   inst |-> None]

InitRun ==
  /\ recorder = Recorder_new
  /\ returned = None
  /\ input = None
  /\ parsed = None
  /\ invocation = None
  /\ outcome = None
  /\ \/ \E n \in 0..MaxCode :
          \E instructions \in [1..n -> InstructionBytes] :
            runtime = Some(RuntimeOf(Concat(instructions)))
     \/ runtime = Some(RuntimeOf(IntegerArithmeticCode))
     \/ \* A constant push, iconst_m1 to dconst_1, then return; on an
        \* empty operand stack and behind iconst_2.
        \E byte \in 2..15 :
          \E prefix \in {<<>>, <<5>>} :
            runtime = Some(RuntimeOf(prefix \o <<byte, 177>>))
     \/ \* An opcode of the operand table of fetch or of the class-file
        \* format (ldc, ldc_w, ldc2_w, aload, astore, if_acmpeq, ifnull,
        \* invokeinterface, goto_w among them), then the bytes 0, 5, 0, 0
        \* and return.
        \E byte \in (16..25) \cup (54..58) \cup {132} \cup (153..167)
                      \cup (178..185) \cup (198..200) :
          runtime = Some(RuntimeOf(<<byte, 0, 5, 0, 0, 177>>))

\* One turn of the loop of run.
RunStep ==
  /\ runtime # None
  /\ runtime[1].run = "loop"
  /\ runtime' = Some(run_iteration(runtime[1]))
  /\ UNCHANGED <<recorder, returned, input, parsed, invocation, outcome>>

NextRun == RunStep

SpecRun == InitRun /\ [][NextRun]_vars

(***************************************************************************)
(* SpecFrom: the conversions from a byte, OPCode::from and                 *)
(* ConstantKind::from, applied to every u8.                                *)
(***************************************************************************)
\* `tag as u8`: the discriminant of a variant of enum OPCode, which is its
\* place in the declaration, from 0; Unspecified is the last variant.
OPCodeAsU8(tag) ==
  LET variants == <<
        "Nop", "AConstNull", "IconstM1", "Iconst0", "Iconst1",
        "Iconst2", "Iconst3", "Iconst4", "Iconst5", "Lconst0",
        "Lconst1", "Fconst0", "Fconst1", "Fconst2", "Dconst0",
        "Dconst1", "BiPush", "SiPush", "Ldc", "LdcW", "Ldc2W",
        "ILoad", "LLoad", "FLoad", "DLoad", "ALoad", "ILoad0",
        "ILoad1", "ILoad2", "ILoad3", "LLoad0", "LLoad1", "LLoad2",
        "LLoad3", "FLoad0", "FLoad1", "FLoad2", "FLoad3", "DLoad0",
        "DLoad1", "DLoad2", "DLoad3", "ALoad0", "ALoad1", "ALoad2",
        "ALoad3", "IALoad", "LALoad", "FALoad", "DALoad", "AALoad",
        "BALoad", "CALoad", "SALoad", "IStore", "LStore", "FStore",
        "DStore", "AStore", "IStore0", "IStore1", "IStore2",
        "IStore3", "LStore0", "LStore1", "LStore2", "LStore3",
        "FStore0", "FStore1", "FStore2", "FStore3", "DStore0",
        "DStore1", "DStore2", "DStore3", "AStore0", "AStore1",
        "AStore2", "AStore3", "IAStore", "LAStore", "FAStore",
        "DAStore", "AAStore", "BAStore", "CAStore", "SAStore", "Pop",
        "Pop2", "Dup", "DupX1", "DupX2", "Dup2", "Dup2X1", "Dup2X2",
        "Swap", "IAdd", "LAdd", "FAdd", "DAdd", "ISub", "LSub",
        "FSub", "DSub", "IMul", "LMul", "FMul", "DMul", "IDiv",
        "LDiv", "FDiv", "DDiv", "IRem", "LRem", "FRem", "DRem",
        "INeg", "LNeg", "FNeg", "DNeg", "IShl", "LShl", "IShr",
        "LShr", "IUShr", "LUShr", "Iand", "Land", "IOr", "LOr",
        "IXor", "LXor", "IInc", "I2L", "I2F", "I2D", "L2I", "L2F",
        "L2D", "F2I", "F2L", "F2D", "D2I", "D2L", "D2F", "I2B", "I2C",
        "I2S", "LCmp", "FCmpL", "FCmpG", "DCmpL", "DCmpG", "IfEq",
        "IfNe", "IfLt", "IfGe", "IfGt", "IfLe", "IfICmpEq",
        "IfICmpNe", "IfICmpLt", "IfICmpGe", "IfICmpGt", "IfICmpLe",
        "IfACmpEq", "IfACmpNe", "Goto", "Jsr", "Ret", "TableSwitch",
        "LookupSwitch", "IReturn", "LReturn", "FReturn", "DReturn",
        "AReturn", "Return", "GetStatic", "PutStatic", "GetField",
        "PutField", "InvokeVirtual", "InvokeSpecial", "InvokeStatic",
        "InvokeInterface", "InvokeDynamic", "New", "NewArray",
        "ANewArray", "ArrayLength", "AThrow", "CheckCast",
        "InstanceOf", "MonitorEnter", "MonitorExit", "Wide",
        "MultiANewArray", "IfNull", "IfNonNull", "GotoW", "JsrW",
        "Breakpoint", "Unspecified"
      >>
  IN CHOOSE d \in 0..(Len(variants) - 1) : variants[d + 1] = tag

\* `kind as u8`: the discriminants that enum ConstantKind declares;
\* Unspecified follows Package = 20.
ConstantKindAsU8(kind) ==
  CASE kind = "Class" -> 7
    [] kind = "FieldRef" -> 9
    [] kind = "MethodRef" -> 10
    [] kind = "InterfaceMethodRef" -> 11
    [] kind = "String" -> 8
    [] kind = "Integer" -> 3
    [] kind = "Float" -> 4
    [] kind = "Long" -> 5
    [] kind = "Double" -> 6
    [] kind = "NameAndType" -> 12
    [] kind = "Utf8" -> 1
    [] kind = "MethodHandle" -> 15
    [] kind = "MethodType" -> 16
    [] kind = "Dynamic" -> 17
    [] kind = "InvokeDynamic" -> 18
    [] kind = "Module" -> 19
    [] kind = "Package" -> 20
    [] kind = "Unspecified" -> 21

InitFrom ==
  /\ recorder = Recorder_new
  /\ returned = None
  /\ input = None
  /\ parsed = None
  /\ \E fn \in {"OPCode_from", "ConstantKind_from"} :
       \E byte \in 0..255 :
         invocation = Some([fn |-> fn, byte |-> byte])
  /\ outcome = None
  /\ runtime = None

\* A call of OPCode::from on the byte.
OPCodeFromCall ==
  /\ invocation # None
  /\ invocation[1].fn = "OPCode_from"
  /\ outcome = None
  /\ outcome' = Some(OPCodeFromU8(invocation[1].byte))
  /\ UNCHANGED <<recorder, returned, input, parsed, invocation, runtime>>

\* A call of ConstantKind::from on the byte.
ConstantKindFromCall ==
  /\ invocation # None
  /\ invocation[1].fn = "ConstantKind_from"
  /\ outcome = None
  /\ outcome' = Some(ConstantKindFromU8(invocation[1].byte))
  /\ UNCHANGED <<recorder, returned, input, parsed, invocation, runtime>>

NextFrom == OPCodeFromCall \/ ConstantKindFromCall

SpecFrom == InitFrom /\ [][NextFrom]_vars

(***************************************************************************)
(* Properties of the recorder.  A property of one call is stated for every *)
(* reachable recorder and every argument of the model: the recorder the    *)
(* method's operator gives is compared with the recorder before the call.  *)
(***************************************************************************)
\* The buffer and both target sets agree.
SameBuffers(a, b) ==
  /\ a.trace = b.trace
  /\ a.inner_branch_targets = b.inner_branch_targets
  /\ a.outer_branch_targets = b.outer_branch_targets

\* trace, both target sets, trace_start, loop_header and is_recording agree.
SameObservable(a, b) ==
  /\ SameBuffers(a, b)
  /\ a.trace_start = b.trace_start
  /\ a.loop_header = b.loop_header
  /\ a.is_recording = b.is_recording

\* The instruction is a goto with a forward (positive) offset.
IsForwardGoto(inst) ==
  inst.mnemonic = "Goto" /\ inst.params[1][1].val > 0

\* The instruction is a goto with a backward or zero offset.
IsBackwardGoto(inst) ==
  inst.mnemonic = "Goto" /\ inst.params[1][1].val <= 0

\* The instruction is an invokestatic of the method the trace started in.
IsRecursiveInvoke(self, inst) ==
  /\ inst.mnemonic = "InvokeStatic"
  /\ inst.params[1][1].val = self.trace_start.method_index

\* The last record of a non-empty buffer is a return instruction.
LastIsReturn(self) ==
  /\ self.trace # <<>>
  /\ self.trace[Len(self.trace)].inst.mnemonic
       \in {"Return", "IReturn", "LReturn", "FReturn", "DReturn"}

\* pc is in the method of the last record of a non-empty buffer.
SameMethodAsLast(self, pc) ==
  /\ self.trace # <<>>
  /\ pc.method_index = self.trace[Len(self.trace)].pc.method_index

\* C1: while the recorder is idle, a call of record (with any instruction),
\* of is_done_recording or of recording leaves trace, both target sets,
\* trace_start, loop_header and is_recording unchanged; only init changes
\* an idle recorder.
C1_IdleIgnoresRecord ==
  ~recorder.is_recording =>
    /\ \A pc \in PCs, inst \in Insts :
         WellFormed(pc, inst) =>
           SameObservable(record(recorder, pc, inst), recorder)
    /\ \A pc \in PCs :
         SameObservable(is_done_recording(recorder, pc).self, recorder)
    /\ SameObservable(recording(recorder).self, recorder)

C4_RecursiveCallAborts ==
  \A pc \in PCs, inst \in Insts :
    IsRecursiveInvoke(recorder, inst) =>
      LET r == record(recorder, pc, inst) IN
      ~r.is_recording /\ SameBuffers(r, recorder)

\* C4 witness: a recording that holds records and a branch target, which a
\* recursive invokestatic stops.
C4_Witness ==
  /\ recorder.is_recording
  /\ recorder.trace # <<>>
  /\ recorder.inner_branch_targets # {}
  /\ \E pc \in PCs, inst \in Insts :
       /\ IsRecursiveInvoke(recorder, inst)
       /\ ~record(recorder, pc, inst).is_recording

\* C5: the buffer never holds an invokestatic record whose parameter equals
\* trace_start.method_index.
C5_NoRecursiveCallInTrace ==
  \A i \in DOMAIN recorder.trace :
    recorder.trace[i].inst.mnemonic = "InvokeStatic" =>
      recorder.trace[i].inst.params[1][1].val
        # recorder.trace_start.method_index

\* C5 witness: a recorder that was started in method 1, after one started
\* in method 0, and holds an invokestatic record.
C5_Witness ==
  /\ recorder.is_recording
  /\ recorder.trace_start.method_index = 1
  /\ \E i \in DOMAIN recorder.trace :
       recorder.trace[i].inst.mnemonic = "InvokeStatic"

C7_AbortsStopRecording ==
  /\ \A pc \in PCs, inst \in Insts :
       (IsForwardGoto(inst) \/ IsRecursiveInvoke(recorder, inst)) =>
         ~record(recorder, pc, inst).is_recording
  /\ \A pc \in PCs :
       (LastIsReturn(recorder) /\ ~SameMethodAsLast(recorder, pc)) =>
         ~is_done_recording(recorder, pc).self.is_recording

\* C8: record of a goto with offset <= 0 at pc, with branch_target =
\* (pc.method_index, pc.instruction_index + offset): branch_target joins
\* inner_branch_targets if it equals trace_start and outer_branch_targets
\* otherwise, the other set is unchanged, and exactly the record (pc, goto)
\* is appended at the end of the buffer.
C8_BackwardGotoTargets ==
  \A pc \in PCs, inst \in Insts :
    (IsBackwardGoto(inst) /\ WellFormed(pc, inst)) =>
      LET r == record(recorder, pc, inst)
          branch_target ==
            [method_index |-> pc.method_index,
             instruction_index |->
               pc.instruction_index + inst.params[1][1].val]
      IN
      /\ r.trace = Append(recorder.trace, [pc |-> pc, inst |-> inst])
      /\ IF branch_target = recorder.trace_start
         THEN /\ r.inner_branch_targets
                   = recorder.inner_branch_targets \cup {branch_target}
              /\ r.outer_branch_targets = recorder.outer_branch_targets
         ELSE /\ r.outer_branch_targets
                   = recorder.outer_branch_targets \cup {branch_target}
              /\ r.inner_branch_targets = recorder.inner_branch_targets

\* C8 witness: a recording whose second record is a goto with a negative
\* offset to trace_start, after a goto to another target.
C8_Witness ==
  /\ recorder.is_recording
  /\ Len(recorder.trace) = 2
  /\ IsBackwardGoto(recorder.trace[1].inst)
  /\ IsBackwardGoto(recorder.trace[2].inst)
  /\ recorder.trace[2].inst.params[1][1].val < 0
  /\ recorder.inner_branch_targets = {recorder.trace_start}
  /\ recorder.outer_branch_targets # {}

\* The canonical long form of every short-form opcode: the short-form
\* opcode, the long-form opcode and the explicit parameter.
CanonicalForms ==
  {
   <<"IconstM1", "Ldc", ValueInt(-1)>>,
   <<"Iconst0", "Ldc", ValueInt(0)>>,
   <<"Iconst1", "Ldc", ValueInt(1)>>,
   <<"Iconst2", "Ldc", ValueInt(2)>>,
   <<"Iconst3", "Ldc", ValueInt(3)>>,
   <<"Iconst4", "Ldc", ValueInt(4)>>,
   <<"Iconst5", "Ldc", ValueInt(5)>>,
   <<"Lconst0", "Ldc2W", ValueLong(0)>>,
   <<"Lconst1", "Ldc2W", ValueLong(1)>>,
   <<"Fconst0", "Ldc", ValueFloat(0)>>,
   <<"Fconst1", "Ldc", ValueFloat(1)>>,
   <<"Fconst2", "Ldc", ValueFloat(2)>>,
   <<"Dconst0", "Ldc2W", ValueDouble(0)>>,
   <<"Dconst1", "Ldc2W", ValueDouble(1)>>,
   <<"ILoad0", "ILoad", ValueInt(0)>>,
   <<"ILoad1", "ILoad", ValueInt(1)>>,
   <<"ILoad2", "ILoad", ValueInt(2)>>,
   <<"ILoad3", "ILoad", ValueInt(3)>>,
   <<"IStore0", "IStore", ValueInt(0)>>,
   <<"IStore1", "IStore", ValueInt(1)>>,
   <<"IStore2", "IStore", ValueInt(2)>>,
   <<"IStore3", "IStore", ValueInt(3)>>,
   <<"LLoad0", "LLoad", ValueInt(0)>>,
   <<"LLoad1", "LLoad", ValueInt(1)>>,
   <<"LLoad2", "LLoad", ValueInt(2)>>,
   <<"LLoad3", "LLoad", ValueInt(3)>>,
   <<"LStore0", "LStore", ValueInt(0)>>,
   <<"LStore1", "LStore", ValueInt(1)>>,
   <<"LStore2", "LStore", ValueInt(2)>>,
   <<"LStore3", "LStore", ValueInt(3)>>,
   <<"FLoad0", "FLoad", ValueInt(0)>>,
   <<"FLoad1", "FLoad", ValueInt(1)>>,
   <<"FLoad2", "FLoad", ValueInt(2)>>,
   <<"FLoad3", "FLoad", ValueInt(3)>>,
   <<"FStore0", "FStore", ValueInt(0)>>,
   <<"FStore1", "FStore", ValueInt(1)>>,
   <<"FStore2", "FStore", ValueInt(2)>>,
   <<"FStore3", "FStore", ValueInt(3)>>,
   <<"DLoad0", "DLoad", ValueInt(0)>>,
   <<"DLoad1", "DLoad", ValueInt(1)>>,
   <<"DLoad2", "DLoad", ValueInt(2)>>,
   <<"DLoad3", "DLoad", ValueInt(3)>>,
   <<"DStore0", "DStore", ValueInt(0)>>,
   <<"DStore1", "DStore", ValueInt(1)>>,
   <<"DStore2", "DStore", ValueInt(2)>>,
   <<"DStore3", "DStore", ValueInt(3)>>
  }

\* C9: for every short-form constant, load and store opcode (lstore_0..3
\* included), the record appended by record while recording carries exactly
\* one parameter: the literal of the declared kind, or Int N for the local
\* slot N.
C9_ShortFormParameter ==
  recorder.is_recording =>
    \A pc \in OpsPCs, form \in CanonicalForms :
      LET r == record(recorder, pc, Instruction(form[1], None)) IN
      /\ Len(r.trace) = Len(recorder.trace) + 1
      /\ r.trace[Len(r.trace)].pc = pc
      /\ r.trace[Len(r.trace)].inst.params = Some(<<form[3]>>)

\* C10: the record appended while recording for a short-form instruction
\* has the long-form opcode, and no record of a finished Trace has a
\* short-form opcode.
C10_ShortFormOpcode ==
  recorder.is_recording =>
    \A form \in CanonicalForms :
      /\ \A pc \in OpsPCs :
           LET r == record(recorder, pc, Instruction(form[1], None)) IN
           /\ Len(r.trace) = Len(recorder.trace) + 1
           /\ r.trace[Len(r.trace)].inst.mnemonic = form[2]
      /\ \A i \in DOMAIN recording(recorder).ret.trace :
           recording(recorder).ret.trace[i].inst.mnemonic # form[1]

\* C11: init(loop_header, start) on a recorder that is recording with
\* trace_start = start changes nothing: buffer, both target sets,
\* trace_start, loop_header (whatever the loop_header argument),
\* is_recording and last_instruction_was_branch stay as they were.
C11_InitSameStartIsNoOp ==
  \A loop_header \in PCs, start \in PCs :
    (recorder.is_recording /\ recorder.trace_start = start) =>
      init(recorder, loop_header, start) = recorder

\* C11 witness: a recording that holds a record, a branch target and a set
\* branch flag, on which init with its trace_start and another loop_header
\* changes nothing.
C11_Witness ==
  /\ recorder.is_recording
  /\ recorder.trace # <<>>
  /\ recorder.last_instruction_was_branch
  /\ recorder.inner_branch_targets \cup recorder.outer_branch_targets # {}
  /\ \E loop_header \in PCs :
       /\ loop_header # recorder.loop_header
       /\ init(recorder, loop_header, recorder.trace_start) = recorder

\* C12: init(loop_header, start) on a recorder that is not recording, or is
\* recording with trace_start # start, gives an empty buffer, empty target
\* sets, trace_start = start, loop_header = loop_header, is_recording = true
\* and last_instruction_was_branch = false.
C12_InitResets ==
  \A loop_header \in PCs, start \in PCs :
    (~recorder.is_recording \/ recorder.trace_start # start) =>
      LET r == init(recorder, loop_header, start) IN
      /\ r.trace = <<>>
      /\ r.inner_branch_targets = {}
      /\ r.outer_branch_targets = {}
      /\ r.trace_start = start
      /\ r.loop_header = loop_header
      /\ r.is_recording
      /\ ~r.last_instruction_was_branch

\* C12 witness: a recorder with records, a branch target and a set branch
\* flag, which init resets both for its own trace_start (it is not
\* recording) and for another start.
C12_Witness ==
  /\ ~recorder.is_recording
  /\ Len(recorder.trace) > 1
  /\ recorder.last_instruction_was_branch
  /\ recorder.inner_branch_targets \cup recorder.outer_branch_targets # {}
  /\ \A start \in PCs :
       init(recorder, recorder.loop_header, start).trace = <<>>

\* The recorder's trace as seen in the Trace that recording returns.
TraceOf(self) ==
  [start |-> self.trace_start, trace |-> self.trace,
   inner_branch_targets |-> self.inner_branch_targets,
   outer_branch_targets |-> self.outer_branch_targets]

\* C13: recording sets is_recording = false and returns a Trace with start
\* = trace_start and the recorder's records and target sets; the
\* recorder's buffer and sets are not cleared; and the Trace the caller
\* holds changes only by being replaced with the result of another
\* recording call, never by a later init or record call.
C13_RecordingReturnsDetachedCopy ==
  /\ [](LET r == recording(recorder) IN
        /\ ~r.self.is_recording
        /\ r.ret = TraceOf(recorder)
        /\ SameBuffers(r.self, recorder)
        /\ r.self.trace_start = recorder.trace_start
        /\ r.self.loop_header = recorder.loop_header)
  /\ [][returned' # returned =>
          /\ returned' = Some(TraceOf(recorder))
          /\ recorder' = [recorder EXCEPT !.is_recording = FALSE]]_vars

\* C13 witness: the caller holds a Trace with a record while the recorder,
\* started again and recording, holds another record.
C13_Witness ==
  /\ returned # None
  /\ returned[1].trace # <<>>
  /\ recorder.is_recording
  /\ recorder.trace # <<>>
  /\ recorder.trace # returned[1].trace

\* C14: a record call leaves the buffer unchanged or appends exactly one
\* record, with the pc of the call, at its end; and every step of the
\* recorder leaves the buffer unchanged, appends one record at its end, or
\* is an init that resets and empties it.
C14_BufferAppendOnly ==
  /\ [](\A pc \in PCs, inst \in Insts :
          LET r == record(recorder, pc, inst) IN
          \/ r.trace = recorder.trace
          \/ /\ Len(r.trace) = Len(recorder.trace) + 1
             /\ SubSeq(r.trace, 1, Len(recorder.trace)) = recorder.trace
             /\ r.trace[Len(r.trace)].pc = pc
             /\ r.trace[Len(r.trace)].inst.mnemonic = inst.mnemonic)
  /\ [][\/ recorder'.trace = recorder.trace
        \/ /\ Len(recorder'.trace) = Len(recorder.trace) + 1
           /\ SubSeq(recorder'.trace, 1, Len(recorder.trace))
                = recorder.trace
        \/ /\ recorder'.trace = <<>>
           /\ ~(recorder.is_recording
                  /\ recorder.trace_start = recorder'.trace_start)
           /\ recorder'
                = init(recorder, recorder'.loop_header,
                       recorder'.trace_start)]_vars

\* C14 witness: a buffer of two different records.
C14_Witness ==
  /\ Len(recorder.trace) = 2
  /\ recorder.trace[1] # recorder.trace[2]
  /\ recorder.is_recording

\* The recorder after one record call for every fetched instruction of
\* `calls`, in order.
RECURSIVE record_all(_, _)
record_all(self, calls) ==
  IF calls = <<>>
  THEN self
  ELSE record_all(record(self, calls[1].pc, calls[1].inst), Tail(calls))

\* The fetched instructions of the model: a pc and a well-formed instruction.
Fetched ==
  {[pc |-> pc, inst |-> inst] : pc \in PCs, inst \in Insts}

\* The pc a goto fetched at a pc branches to.
GotoTarget(call) ==
  [method_index |-> call.pc.method_index,
   instruction_index |->
     call.pc.instruction_index + call.inst.params[1][1].val]

\* The sequences of one to MaxIteration fetched instructions that are one
\* iteration of a loop with header H: the first is fetched at H, the last
\* is a goto to H, and none is a forward goto, an invokestatic of the
\* method of H, or a return.
LoopIterations(H) ==
  LET body == {c \in Fetched :
                 /\ WellFormed(c.pc, c.inst)
                 /\ ~IsForwardGoto(c.inst)
                 /\ ~(c.inst.mnemonic = "InvokeStatic"
                        /\ c.inst.params[1][1].val = H.method_index)
                 /\ c.inst.mnemonic \notin ReturnOPCodes}
  IN
  {it \in UNION {[1..n -> body] : n \in 1..MaxIteration} :
     /\ it[1].pc = H
     /\ it[Len(it)].inst.mnemonic = "Goto"
     /\ GotoTarget(it[Len(it)]) = H}

\* After init(H, H) and the record calls of the iteration `it`: the buffer
\* holds one record per instruction of the iteration, in order and at its
\* pc, unchanged unless it is a short form, with the goto last; H is an
\* inner branch target, there is no outer one, the recorder is recording
\* and is_done_recording(H) returns true.
LoopTraceRecorded(self, H, it) ==
  LET r == record_all(init(self, H, H), it) IN
  /\ Len(r.trace) = Len(it)
  /\ \A i \in 1..Len(it) :
       /\ r.trace[i].pc = it[i].pc
       /\ r.trace[i].inst.mnemonic = it[i].inst.mnemonic
       /\ it[i].inst.mnemonic \notin ShortFormArmOPCodes
            => r.trace[i].inst = it[i].inst
  /\ r.trace[Len(r.trace)] = it[Len(it)]
  /\ H \in r.inner_branch_targets
  /\ r.outer_branch_targets = {}
  /\ r.is_recording
  /\ is_done_recording(r, H).ret

\* C15 as claimed: after init(H, H) and the record calls of one loop
\* iteration starting at H, without forward goto, recursive invokestatic
\* and return and ending with a goto to H, the buffer holds exactly the
\* iteration in order with the goto last, H is in inner_branch_targets,
\* outer_branch_targets is empty, is_recording is true and
\* is_done_recording(H) returns true.
C15_LoopTraceScenario ==
  \A H \in PCs :
    \A it \in LoopIterations(H) :
      LoopTraceRecorded(recorder, H, it)

\* C15 amended: the same, for an init(H, H) that resets (the recorder is
\* not already recording from H) and an iteration whose gotos all branch
\* to H.
C15_LoopTraceAfterReset ==
  \A H \in PCs :
    ~(recorder.is_recording /\ recorder.trace_start = H) =>
      \A it \in LoopIterations(H) :
        (\A i \in 1..Len(it) :
           it[i].inst.mnemonic = "Goto" => GotoTarget(it[i]) = H)
          => LoopTraceRecorded(recorder, H, it)

\* C15 witness: a recorder that holds the record of an earlier recording,
\* and a loop at its trace_start of a short-form load and a backward goto
\* whose iteration is recorded as claimed.
C15_Witness ==
  /\ ~recorder.is_recording
  /\ recorder.trace # <<>>
  /\ \E it \in LoopIterations(recorder.trace_start) :
       /\ Len(it) = 2
       /\ it[1].inst.mnemonic = "ILoad1"
       /\ it[2].inst.params[1][1].val < 0
       /\ LoopTraceRecorded(recorder, recorder.trace_start, it)

IndexOfEntry(file, k) == 1 + SumSlots(SubSeq(file.entries, 1, k - 1))

\* The input is a whole class file with a constant_pool_count of 1 or
\* more whose entries all have a tag the decoder accepts.
WholeFile(inp) ==
  /\ inp.cut = Len(ClassFileBytes(inp.file))
  /\ inp.file.constant_pool_count >= 1
  /\ \A k \in DOMAIN inp.file.entries : inp.file.entries[k] # 2

\* The constant-pool loop of parse on the input, after the header.
PoolLoopOf(inp) ==
  LET header == parse_header(Cursor_new(InputBytes(inp))) IN
  constant_pool_loop(header.buffer,
                     constant_pool_new(header.constant_pool_count),
                     1, header.constant_pool_count)

\* C17: parse returns a ClassFile only with magic = 0xCAFEBABE: an input
\* whose first four bytes are not CA FE BA BE never yields a ClassFile.
C17_BadMagicRejected ==
  parsed # None =>
    LET bytes == InputBytes(input[1]) IN
    /\ parsed[1].outcome = "Ok"
         => parsed[1].class_file.magic = JVM_CLASS_FILE_MAGIC
    /\ (Len(bytes) >= 4 /\ SubSeq(bytes, 1, 4) # JVM_CLASS_FILE_MAGIC)
         => parsed[1].outcome # "Ok"

\* C18: for a whole class file, the constant-pool loop stores the k-th
\* entry of the stream at its pool index, leaves the index after a Long or
\* a Double Unspecified, reads constant_pool_count - 1 - (number of Long
\* and Double entries) tag bytes, and ends with the cursor at access_flags.
C18_TwoSlotRule ==
  (parsed # None /\ WholeFile(input[1])) =>
    LET file == input[1].file
        loop == PoolLoopOf(input[1])
        wide == {k \in DOMAIN file.entries : file.entries[k] \in {5, 6}}
    IN
    /\ loop.outcome = "Ok"
    /\ loop.tags = file.constant_pool_count - 1 - Cardinality(wide)
    /\ loop.buffer.pos = Len(PoolBytes(file))
    /\ \A k \in DOMAIN file.entries :
         /\ loop.constant_pool[IndexOfEntry(file, k)] # CPInfoUnspecified
         /\ k \in wide =>
              /\ loop.constant_pool[IndexOfEntry(file, k)].kind
                   \in {"ConstantLong", "ConstantDouble"}
              /\ loop.constant_pool[IndexOfEntry(file, k) + 1]
                   = CPInfoUnspecified

C20_ParseNeverPanics ==
  parsed # None =>
    LET inp == input[1] IN
    /\ parsed[1].outcome \in {"Ok", "Err"}
    /\ inp.cut < Len(ClassFileBytes(inp.file)) => parsed[1].outcome = "Err"
    /\ (/\ inp.cut = Len(ClassFileBytes(inp.file))
        /\ \E k \in DOMAIN inp.file.entries : inp.file.entries[k] = 2)
         => parsed[1].outcome = "Err"


(***************************************************************************)
(* Properties of parse_attribute_info, stated on the attribute block of    *)
(* the call and on what the call returns.                                  *)
(***************************************************************************)
\* The names that parse_attribute_info knows.
KnownAttributeNames ==
  {NameConstantValue, NameCode, NameStackMapTable, NameSourceFile,
   NameBootstrapMethods, NameNestHost, NameNestMembers}

\* The name of an attribute of the model is a Utf8 entry, and it is not a
\* known name.
HasName(attr) == AttrPool[attr.name_index].kind = "ConstantUtf8"

IsUnknownAttribute(attr) ==
  HasName(attr) /\ AttrPool[attr.name_index].bytes \notin KnownAttributeNames

\* A call of parse_attribute_info that has returned, on a block of named
\* attributes.
AttrCallDone ==
  /\ invocation # None
  /\ invocation[1].fn = "parse_attribute_info"
  /\ outcome # None
  /\ \A i \in DOMAIN invocation[1].attributes :
       HasName(invocation[1].attributes[i])

\* C21: an attribute of an unknown name is skipped by reading exactly
\* attribute_length bytes: the call ends behind the last byte of the block,
\* the map holds no entry under the unknown name, and it is the map of the
\* same block without the unknown attributes, so that every attribute
\* behind an unknown one is read from its first byte.
C21_UnknownAttributeSkipped ==
  AttrCallDone =>
    LET attrs == invocation[1].attributes
        known == SelectSeq(attrs, LAMBDA attr : ~IsUnknownAttribute(attr))
        r == outcome[1]
    IN
    /\ r.ok
    /\ r.buffer.pos = Len(BlockBytes(attrs))
    /\ \A i \in DOMAIN attrs :
         IsUnknownAttribute(attrs[i])
           => AttrPool[attrs[i].name_index].bytes \notin DOMAIN r.value
    /\ r.value = parse_attribute_info(Cursor_new(BlockBytes(known)),
                                      AttrPool).value

\* An unknown attribute with a body, then a SourceFile attribute, which the
\* map holds.
C21_Witness ==
  /\ AttrCallDone
  /\ Len(invocation[1].attributes) = 2
  /\ IsUnknownAttribute(invocation[1].attributes[1])
  /\ Len(invocation[1].attributes[1].body) > 2
  /\ invocation[1].attributes[2].name_index = 2
  /\ outcome[1].ok
  /\ DOMAIN outcome[1].value = {NameSourceFile}
  /\ outcome[1].value[NameSourceFile].source_file_index = 9

(***************************************************************************)
(* Properties of Program, stated on the arguments of the call and on what  *)
(* the call returns.                                                       *)
(***************************************************************************)
\* A call of the function `fn` that has returned.
CallDone(fn) ==
  /\ invocation # None
  /\ invocation[1].fn = fn
  /\ outcome # None

\* C22: entry_point returns the pool index of the Utf8 constant "main",
\* whatever the size of the pool and wherever the entry stands in it.
C22_EntryPointFindsMain ==
  (CallDone("entry_point") /\ invocation[1].at # 0)
    => (outcome[1].ok /\ outcome[1].value = invocation[1].at)

\* C23: after Program::new, code(name_index) and max_locals(name_index) are
\* the code and the max_locals of the Code attribute of every method of the
\* class file, two methods of one name_index and a name_index of 256 or
\* more included.
C23_MethodTableHoldsEveryMethod ==
  (/\ CallDone("Program_new")
   /\ \A i \in DOMAIN invocation[1].methods :
        NameCode \in DOMAIN invocation[1].methods[i].attributes)
    => /\ outcome[1].ok
       /\ \A i \in DOMAIN invocation[1].methods :
            LET method_info == invocation[1].methods[i]
                program == outcome[1].value
            IN
            /\ code(program, method_info.name_index)
                 = [ok |-> TRUE,
                    value |-> method_info.attributes[NameCode].code]
            /\ max_locals(program, method_info.name_index)
                 = [ok |-> TRUE,
                    value |-> method_info.attributes[NameCode].max_locals]

\* C24: find_method(m) follows MethodRef -> NameAndType: it returns the
\* name_index of the NameAndType entry, 0 when the entry at
\* name_and_type_index is not a NameAndType, and it fails when the entry at
\* m is not a MethodRef.
C24_FindMethodResolves ==
  CallDone("find_method") =>
    LET pool == RefPool(invocation[1].k)
        m == invocation[1].method_ref
    IN
    /\ (m \in DOMAIN pool /\ pool[m].kind # "ConstantMethodRef")
         => ~outcome[1].ok
    /\ (/\ m \in DOMAIN pool
        /\ pool[m].kind = "ConstantMethodRef"
        /\ pool[m].name_and_type_index \in DOMAIN pool)
         => LET n == pool[m].name_and_type_index IN
            /\ outcome[1].ok
            /\ pool[n].kind = "ConstantNameAndType"
                 => outcome[1].value = pool[n].name_index
            /\ pool[n].kind # "ConstantNameAndType"
                 => outcome[1].value = 0

\* A MethodRef resolved to the name index 3, which is not 0.
C24_Witness ==
  /\ CallDone("find_method")
  /\ invocation[1].k = 3
  /\ invocation[1].method_ref = 1
  /\ outcome[1] = [ok |-> TRUE, value |-> 3]

\* The type that a type string of the grammar denotes: "[" T is a List of
\* the type of T.
RECURSIVE TypeOfString(_)
TypeOfString(s) ==
  CASE s[1] = "I" -> Type("Int", None)
    [] s[1] = "J" -> Type("Long", None)
    [] s[1] = "F" -> Type("Float", None)
    [] s[1] = "D" -> Type("Double", None)
    [] s[1] = "V" -> Type("Void", None)
    [] s[1] = "[" -> Type("List", Some(TypeOfString(Tail(s))))

\* C25: for every descriptor of the grammar '(' type* ')' type,
\* parse_method_types returns the types of the arguments in order and the
\* return type.
C25_DescriptorParsed ==
  CallDone("parse_method_types") =>
    /\ outcome[1].ok
    /\ outcome[1].value
         = <<[i \in DOMAIN invocation[1].args |->
                TypeOfString(invocation[1].args[i])],
             TypeOfString(invocation[1].ret)>>

(***************************************************************************)
(* Properties of the interpreter.  A property of one instruction is stated *)
(* for every reachable runtime in which run is about to fetch it: the      *)
(* runtime that one turn of the loop gives is compared with the runtime    *)
(* before.                                                                 *)
(***************************************************************************)
\* run is in its loop.
Running == runtime # None /\ runtime[1].run = "loop"

\* The top frame of a runtime that has one.
TopFrame(self) == self.states[Len(self.states)]

\* The code of the method of the top frame, and the bytes from its program
\* counter on.
CodeAhead(self) ==
  LET frame == TopFrame(self)
      bytes == self.program.methods[frame.pc.method_index].code
  IN SubSeq(bytes, frame.pc.instruction_index + 1, Len(bytes))

\* run is about to fetch the opcode `mnemonic` with all its operand bytes.
AboutToFetch(mnemonic) ==
  /\ Running
  /\ runtime[1].self.states # <<>>
  /\ CodeAhead(runtime[1].self) # <<>>
  /\ OPCodeFromU8(CodeAhead(runtime[1].self)[1]) = mnemonic
  /\ Len(CodeAhead(runtime[1].self)) > OperandBytes(mnemonic)

\* C26: run loops while the frame stack is non-empty; return pops the
\* current frame, and with exactly one frame on the stack the run then ends
\* normally, with an empty frame stack and without another turn of the
\* loop.
C26_ReturnEndsRun ==
  /\ Running => runtime[1].self.states # <<>>
  /\ (runtime # None /\ runtime[1].run = "returned")
       => (runtime[1].self.states = <<>> /\ ~ENABLED RunStep)
  /\ AboutToFetch("Return")
       => LET before == runtime[1].self
              after == run_iteration(runtime[1])
          IN
          /\ after.self.states
               = SubSeq(before.states, 1, Len(before.states) - 1)
          /\ Len(before.states) = 1
               => (after.run = "returned" /\ after.self.states = <<>>)

\* The run of iconst_2, return has ended normally, its last instruction
\* being the return.
C26_Witness ==
  /\ runtime # None
  /\ runtime[1].run = "returned"
  /\ runtime[1].self.states = <<>>
  /\ runtime[1].self.program.methods[1].code = <<5, 177>>
  /\ runtime[1].inst = Some(Instruction("Return", None))

\* The code of main in the runtime.
MainCode == runtime[1].self.program.methods[1].code

\* C27: in the run of iconst_2, iconst_3, iadd, ireturn, iadd leaves Int(5)
\* on the operand stack in place of its two operands, ireturn pops the
\* value and the frame, and the run returns.
C27_IntegerArithmetic ==
  (runtime # None /\ MainCode = IntegerArithmeticCode)
    => /\ runtime[1].run # "panicked"
       /\ runtime[1].inst = Some(Instruction("IAdd", None))
            => TopFrame(runtime[1].self).stack = <<ValueInt(5)>>
       /\ runtime[1].inst = Some(Instruction("IReturn", None))
            => (runtime[1].run = "returned" /\ runtime[1].self.states = <<>>)

\* C28: invokestatic pushes a new frame with pc = (resolved name index, 0)
\* and an empty operand stack; the arguments of the callee go from the
\* operand stack of the caller to the locals 0.. of the new frame, and the
\* caller stays beneath.
C28_InvokeStaticPushesFrame ==
  AboutToFetch("InvokeStatic") =>
    LET before == runtime[1].self
        caller == TopFrame(before)
        after == run_iteration(runtime[1])
        callee == after.inst[1].params[1][1].val
        n == Len(before.program.methods[callee].arg_types)
        depth == Len(before.states)
    IN
    (fetch(before).ok /\ Len(caller.stack) >= n)
      => /\ after.run = "loop"
         /\ Len(after.self.states) = depth + 1
         /\ TopFrame(after.self).pc = ProgramCounter(callee, 0)
         /\ TopFrame(after.self).stack = <<>>
         /\ \A i \in 0..(n - 1) :
              /\ i \in DOMAIN TopFrame(after.self).locals
              /\ TopFrame(after.self).locals[i]
                   = caller.stack[Len(caller.stack) - n + 1 + i]
         /\ after.self.states[depth].pc.method_index = caller.pc.method_index
         /\ after.self.states[depth].stack
              = SubSeq(caller.stack, 1, Len(caller.stack) - n)

\* Opcodes that the interpreter does not support: a byte that is no opcode,
\* object creation, monitors, athrow, checkcast, instanceof, invokedynamic.
UnsupportedOPCodes ==
  {"Unspecified", "New", "NewArray", "ANewArray", "MonitorEnter",
   "MonitorExit", "AThrow", "CheckCast", "InstanceOf", "InvokeDynamic"}

\* C29: an unsupported opcode is a runtime error that stops the loop of
\* run: the turn of the loop that fetches it does not go on to the next
\* instruction, and the run does not end normally.
C29_UnsupportedOpcodeIsError ==
  \A mnemonic \in UnsupportedOPCodes :
    AboutToFetch(mnemonic)
      => run_iteration(runtime[1]).run \notin {"loop", "returned"}

\* The number whose two's complement of `bits` bits is v.
SignExtend(v, bits) == IF v >= 2 ^ (bits - 1) THEN v - 2 ^ bits ELSE v

\* C30: fetch decodes the operand byte of bipush as a sign-extended i8 and
\* the two operand bytes of sipush, goto and the if* branches as a
\* sign-extended big-endian i16.
C30_SignedImmediates ==
  /\ AboutToFetch("BiPush")
       => LET ahead == CodeAhead(runtime[1].self) IN
          fetch(runtime[1].self).inst.params
            = Some(<<ValueInt(SignExtend(ahead[2], 8))>>)
  /\ \A mnemonic \in TwoByteOPCodes :
       AboutToFetch(mnemonic)
         => LET ahead == CodeAhead(runtime[1].self) IN
            fetch(runtime[1].self).inst.params
              = Some(<<ValueInt(SignExtend(ahead[2] * 256 + ahead[3], 16))>>)

\* The literal that the constant push of opcode `byte` names: iconst_m1 to
\* iconst_5 are the bytes 2 to 8, lconst_0 and lconst_1 the bytes 9 and 10,
\* fconst_0 to fconst_2 the bytes 11 to 13, dconst_0 and dconst_1 the bytes
\* 14 and 15.
ConstLiteral(byte) ==
  CASE byte \in 2..8 -> ValueInt(byte - 3)
    [] byte \in 9..10 -> ValueLong(byte - 9)
    [] byte \in 11..13 -> ValueFloat(byte - 11)
    [] byte \in 14..15 -> ValueDouble(byte - 14)

\* The runtime with one more frame, of the method f, beneath its frames.
Beneath(self) ==
  [self EXCEPT !.states =
     <<State(ProgramCounter(3, 0), <<ValueInt(7)>>, HashMap_new)>> \o @]

\* C31: a constant push (iconst_m1 to iconst_5, lconst_0/1, fconst_0/1/2,
\* dconst_0/1) pushes exactly one value, the literal of the declared kind,
\* on the operand stack of the top frame; the locals of that frame, the
\* entries below the new top and every other frame are unchanged.
C31_ConstantPushes ==
  \A byte \in 2..15 :
    AboutToFetch(OPCodeFromU8(byte))
      => \A before \in {runtime[1].self, Beneath(runtime[1].self)} :
           LET after == run_iteration([runtime[1] EXCEPT !.self = before])
               depth == Len(before.states)
           IN
           /\ after.run = "loop"
           /\ Len(after.self.states) = depth
           /\ TopFrame(after.self).stack
                = Append(TopFrame(before).stack, ConstLiteral(byte))
           /\ TopFrame(after.self).locals = TopFrame(before).locals
           /\ TopFrame(after.self).pc.method_index
                = TopFrame(before).pc.method_index
           /\ \A i \in 1..(depth - 1) :
                after.self.states[i] = before.states[i]

\* dconst_1 has pushed Double(1) on top of the Int(2) of iconst_2.
C31_Witness ==
  /\ runtime # None
  /\ runtime[1].run = "loop"
  /\ runtime[1].inst = Some(Instruction("Dconst1", None))
  /\ TopFrame(runtime[1].self).stack = <<ValueInt(2), ValueDouble(1)>>

(***************************************************************************)
(* Properties of the conversions from a byte.                              *)
(***************************************************************************)
\* C32: OPCode::from is total on 0..=255; it maps the 203 bytes 0..=202 to
\* 203 pairwise distinct tags, none of them Unspecified, so that the tag
\* converted back is the byte again, and every byte above 202 to
\* Unspecified.
C32_OPCodeTable ==
  CallDone("OPCode_from")
    => LET byte == invocation[1].byte
           tag == outcome[1]
       IN
       /\ byte <= 202
            => /\ tag # "Unspecified"
               /\ OPCodeAsU8(tag) = byte
               /\ \A other \in (0..202) \ {byte} : OPCodeFromU8(other) # tag
       /\ byte > 202 => tag = "Unspecified"
       /\ Cardinality({OPCodeFromU8(b) : b \in 0..202}) = 203

\* OPCode::from(202) has returned Breakpoint, the last tag of the table.
C32_Witness ==
  /\ CallDone("OPCode_from")
  /\ invocation[1].byte = 202
  /\ outcome = Some("Breakpoint")

\* The tag bytes of the variants of ConstantKind that the decoder handles.
HandledTags == {1, 3, 4, 5, 6, 7, 8, 9, 10, 11, 12, 15, 16, 18}

\* C35: ConstantKind::from(v) is the variant whose declared discriminant is
\* v for every v among the tags the decoder handles, so that 11 is
\* InterfaceMethodRef and 12 NameAndType; every other byte gives
\* Unspecified.
C35_ConstantKindTags ==
  CallDone("ConstantKind_from")
    => LET v == invocation[1].byte
           kind == outcome[1]
       IN
       /\ v \in HandledTags => ConstantKindAsU8(kind) = v
       /\ v = 11 => kind = "InterfaceMethodRef"
       /\ v = 12 => kind = "NameAndType"
       /\ v \notin HandledTags => kind = "Unspecified"

(***************************************************************************)
(* Properties of the StackMapTable branch of parse_attribute_info.         *)
(***************************************************************************)
\* The VerificationInfo of the bytes of one verification entry: the tag
\* and, behind the tag of an Object, the pool index.
VerificationInfoOf(entry) ==
  [tag |-> VerificationTypeFromU8(entry[1]),
   cpool_index_or_offset |->
     IF Len(entry) = 3 THEN entry[2] * 256 + entry[3] ELSE 0]

\* C34: a Full frame (frame type 255) is read in the order offset_delta,
\* n_locals, the n_locals verification entries, n_stack, the n_stack
\* verification entries: the frame parsed has the locals and the stack
\* of the bytes laid out in that order.
C34_FullFrameOrder ==
  CallDone("full_frame")
    => LET locals == invocation[1].locals
           stack == invocation[1].stack
           r == outcome[1]
       IN
       /\ r.ok
       /\ NameStackMapTable \in DOMAIN r.value
       /\ r.value[NameStackMapTable].entries
            = <<StackMapFrame(
                  "Full", 5,
                  [i \in 1..Len(locals) |-> VerificationInfoOf(locals[i])],
                  [i \in 1..Len(stack) |-> VerificationInfoOf(stack[i])])>>

(***************************************************************************)
(* Properties of fetch, stated for every reachable runtime in which run is *)
(* about to call it.                                                       *)
(***************************************************************************)
\* The operand bytes of the operand decoding table: 1 for ldc, bipush and
\* the loads and stores with an index, 2 for sipush, ldc_w, ldc2_w, iinc,
\* the if* branches, goto, getstatic and the invokes, 4 for goto_w, and 0
\* for an opcode without operands.
TableOperandBytes(mnemonic) ==
  CASE mnemonic \in {"Ldc", "BiPush", "ILoad", "LLoad", "FLoad", "DLoad",
                     "IStore", "LStore", "FStore", "DStore"} -> 1
    [] mnemonic \in {"SiPush", "LdcW", "Ldc2W", "IInc", "IfEq", "IfNe",
                     "IfLt", "IfGe", "IfGt", "IfLe", "IfICmpEq", "IfICmpNe",
                     "IfICmpLt", "IfICmpGe", "IfICmpGt", "IfICmpLe", "Goto",
                     "GetStatic", "InvokeVirtual", "InvokeSpecial",
                     "InvokeStatic"} -> 2
    [] mnemonic = "GotoW" -> 4
    [] OTHER -> 0

\* The opcodes that the table leaves open: it names neither the loads and
\* stores of references nor the branches on references, and of the invokes
\* it names three.
OpenOPCodes ==
  {"ALoad", "AStore", "IfACmpEq", "IfACmpNe", "IfNull", "IfNonNull",
   "InvokeInterface", "InvokeDynamic", "PutStatic", "GetField", "PutField",
   "Jsr", "Ret", "JsrW", "TableSwitch", "LookupSwitch", "Wide",
   "MultiANewArray", "New", "NewArray", "ANewArray", "CheckCast",
   "InstanceOf", "Unspecified"}

\* C33: fetch moves the program counter past the whole instruction: behind
\* the fetch at instruction_index p of an opcode with k operand bytes in
\* the table, the instruction_index of the top frame is p + 1 + k, so that
\* the next fetch reads an opcode byte.
C33_FetchAdvancesPastInstruction ==
  \A mnemonic \in OPCodes \ OpenOPCodes :
    (/\ AboutToFetch(mnemonic)
     /\ Len(CodeAhead(runtime[1].self)) > TableOperandBytes(mnemonic))
      => LET before == runtime[1].self
             fetched == fetch(before)
         IN
         /\ fetched.ok
         /\ TopFrame(fetched.self).pc.instruction_index
              = TopFrame(before).pc.instruction_index + 1
                  + TableOperandBytes(mnemonic)

\* C40: fetch keeps the frame stack apart from the program counter of the
\* top frame: behind fetch the number of frames is the same, every frame
\* below the top is unchanged, the operand stack, the locals and the
\* method_index of the top frame are unchanged and its instruction_index
\* has increased; neither fetch nor eval changes the Program.
C40_FetchKeepsFrames ==
  (Running /\ runtime[1].self.states # <<>>)
    => \A before \in {runtime[1].self, Beneath(runtime[1].self)} :
         LET fetched == fetch(before)
             depth == Len(before.states)
         IN
         fetched.ok
           => /\ Len(fetched.self.states) = depth
              /\ \A i \in 1..(depth - 1) :
                   fetched.self.states[i] = before.states[i]
              /\ TopFrame(fetched.self).stack = TopFrame(before).stack
              /\ TopFrame(fetched.self).locals = TopFrame(before).locals
              /\ TopFrame(fetched.self).pc.method_index
                   = TopFrame(before).pc.method_index
              /\ TopFrame(fetched.self).pc.instruction_index
                   > TopFrame(before).pc.instruction_index
              /\ fetched.self.program = before.program
              /\ eval(fetched.self, fetched.inst).self.program
                   = before.program

\* run has fetched the sipush 256 behind iconst_2: the frame holds the two
\* values and stands behind the three bytes of the sipush.
C40_Witness ==
  /\ Running
  /\ runtime[1].inst = Some(Instruction("SiPush", Some(<<ValueInt(256)>>)))
  /\ Len(runtime[1].self.states) = 1
  /\ TopFrame(runtime[1].self).stack = <<ValueInt(2), ValueInt(256)>>
  /\ TopFrame(runtime[1].self).pc = ProgramCounter(1, 4)

\* C36: in every reachable recorder state inner_branch_targets and
\* outer_branch_targets are disjoint: inner_branch_targets is empty or the
\* singleton {trace_start}, and outer_branch_targets never contains
\* trace_start.
C36_TargetSetsDisjoint ==
  /\ recorder.inner_branch_targets \cap recorder.outer_branch_targets = {}
  /\ \/ recorder.inner_branch_targets = {}
     \/ recorder.inner_branch_targets = {recorder.trace_start}
  /\ recorder.trace_start \notin recorder.outer_branch_targets

\* C36 witness: a second recording, started elsewhere than the first, that
\* has recorded a goto to its start and a goto to another target.
C36_Witness ==
  /\ recorder.is_recording
  /\ recorder.trace_start # DefaultProgramCounter
  /\ recorder.inner_branch_targets = {recorder.trace_start}
  /\ recorder.outer_branch_targets # {}

\* C37: in every reachable recorder state no record of the buffer is a goto
\* with offset > 0, and the target (pc.method_index, pc.instruction_index +
\* offset) of every goto record (pc, offset) of the buffer is a member of
\* inner_branch_targets or of outer_branch_targets.
C37_GotoRecordsTargeted ==
  \A i \in {j \in 1..Len(recorder.trace) :
              get_mnemonic(recorder.trace[j].inst) = "Goto"} :
    LET entry == recorder.trace[i]
        offset == entry.inst.params[1][1].val
    IN
    /\ offset <= 0
    /\ [method_index |-> entry.pc.method_index,
        instruction_index |-> entry.pc.instruction_index + offset]
         \in recorder.inner_branch_targets \cup recorder.outer_branch_targets

\* C37 witness: after a forward goto was offered, a buffer of two goto
\* records, one to trace_start and one to another target.
C37_Witness ==
  /\ Len(recorder.trace) = 2
  /\ get_mnemonic(recorder.trace[1].inst) = "Goto"
  /\ get_mnemonic(recorder.trace[2].inst) = "Goto"
  /\ recorder.trace[1].inst.params[1][1].val = 0
  /\ recorder.trace[2].inst.params[1][1].val = -1
  /\ recorder.inner_branch_targets # {}
  /\ recorder.outer_branch_targets # {}

\* C38: is_recording changes from false to true only by init: no call of
\* record, is_done_recording or recording turns a stopped recorder back on,
\* and a step that turns the recorder on is an init that resets it.
C38_OnlyInitResumes ==
  /\ [](~recorder.is_recording =>
          /\ \A pc \in PCs, inst \in Insts :
               WellFormed(pc, inst) => ~record(recorder, pc, inst).is_recording
          /\ \A pc \in PCs : ~is_done_recording(recorder, pc).self.is_recording
          /\ ~recording(recorder).self.is_recording)
  /\ [][(~recorder.is_recording /\ recorder'.is_recording) =>
          recorder' = init(recorder, recorder'.loop_header,
                           recorder'.trace_start)]_vars

\* C38 witness: a recorder stopped after an init, which has taken two
\* records since its buffer was last emptied.
C38_Witness ==
  /\ ~recorder.is_recording
  /\ recorder.trace_start # DefaultProgramCounter
  /\ Len(recorder.trace) = 2

\* C39: is_done_recording(pc) never modifies the buffer,
\* inner_branch_targets, outer_branch_targets, trace_start, loop_header or
\* last_instruction_was_branch; the only field it can change is
\* is_recording, and only from true to false.
C39_IsDoneRecordingFrame ==
  \A pc \in PCs :
    LET r == is_done_recording(recorder, pc).self IN
    /\ r.trace = recorder.trace
    /\ r.inner_branch_targets = recorder.inner_branch_targets
    /\ r.outer_branch_targets = recorder.outer_branch_targets
    /\ r.trace_start = recorder.trace_start
    /\ r.loop_header = recorder.loop_header
    /\ r.last_instruction_was_branch = recorder.last_instruction_was_branch
    /\ (r.is_recording # recorder.is_recording) =>
         (recorder.is_recording /\ ~r.is_recording)

\* C39 witness: a recording whose last record is a return, which
\* is_done_recording stops for a pc of the same method, with a branch target
\* and the branch flag set.
C39_Witness ==
  /\ recorder.is_recording
  /\ recorder.trace # <<>>
  /\ get_mnemonic(recorder.trace[Len(recorder.trace)].inst) \in ReturnOPCodes
  /\ recorder.inner_branch_targets \cup recorder.outer_branch_targets # {}
  /\ \E pc \in PCs : ~is_done_recording(recorder, pc).self.is_recording

====
